---- MODULE Spec2Model ----
(***************************************************************************)
(* rusty-req: the single-request executor, the two batch aggregators and   *)
(* the batch entry point, as a timed state machine.                        *)
(*                                                                         *)
(* The repository holds the aggregators and the executor twice: once in    *)
(* src/lib.rs and once in src/request/{executor,concurrency,config}.rs.    *)
(* The variable `build` says which copy is compiled; both are modelled.    *)
(*                                                                         *)
(* Time is counted in whole seconds by `now`.  A tokio timer that is due   *)
(* fires before the clock moves on; code between two awaits takes no time. *)
(*                                                                         *)
(* Spec runs batches of up to MaxN descriptors; SpecExec runs one          *)
(* descriptor with every kind of timeout value; SpecProxy runs batches     *)
(* whose descriptors carry proxy configurations; SpecHelper applies a      *)
(* helper function (should_use_proxy, create_client_with_proxy) to its     *)
(* arguments on its own; SpecDebug runs one descriptor while set_debug      *)
(* switches the debug mode.                                                *)
(***************************************************************************)
EXTENDS Integers, Sequences, FiniteSets, TLC

\* ---------------------------------------------------------------- bounds
MaxN == 2             \* longest batch handed to fetch_requests
MaxTimeout == 4       \* largest whole-second timeout of a descriptor in SpecExec
MaxPatterns == 2      \* longest no_proxy list handed to should_use_proxy alone
MaxStr == 2           \* longest string value of a params dict

\* ------------------------------------------------------ program constants
MinTimeout == 3            \* .max(3.0)
DefaultTimeout == 30       \* req.timeout.unwrap_or(30.0)
DefaultTotalTimeout == 30  \* total_timeout.unwrap_or(30.0)
U16Max == 65535            \* parse::<u16>

\* ------------------------------------------------------------ Option / f64
NoneStr == "<None>"                       \* Option<String>::None
NoneF64 == [cls |-> "none", v |-> 0]      \* Option<f64>::None
F(v)    == [cls |-> "finite", v |-> v]    \* Some(v), v a whole number of seconds
F_NaN   == [cls |-> "nan", v |-> 0]
F_Inf   == [cls |-> "inf", v |-> 0]

\* Option<f64>::unwrap_or
unwrap_or(x, d) == IF x.cls = "none" THEN F(d) ELSE x

\* f64::max: a NaN operand is ignored
f64_max(a, b) ==
    IF a.cls = "nan" THEN b
    ELSE IF b.cls = "nan" THEN a
    ELSE IF a.cls = "inf" \/ b.cls = "inf" THEN F_Inf
    ELSE IF a.v >= b.v THEN a ELSE b

\* Duration::from_secs_f64: panics on a negative, NaN or infinite value
from_secs_f64(x) ==
    IF x.cls = "finite" /\ x.v >= 0
    THEN [ok |-> TRUE, secs |-> x.v]
    ELSE [ok |-> FALSE, secs |-> 0]

\* ------------------------------------------------------------------- text
EmptyObj == [k \in {} |-> ""]                    \* the JSON object {}
EmptyString == [text |-> "raw", obj |-> EmptyObj]  \* String::new()
Json(o)  == [text |-> "json", obj |-> o]         \* Value::to_string()

Digit(d) == CASE d = 0 -> "0" [] d = 1 -> "1" [] d = 2 -> "2" [] d = 3 -> "3"
              [] d = 4 -> "4" [] d = 5 -> "5" [] d = 6 -> "6" [] d = 7 -> "7"
              [] d = 8 -> "8" [] d = 9 -> "9"

RECURSIVE Decimal(_)
\* u16::to_string, as the sequence of its characters
Decimal(n) == IF n < 10 THEN <<Digit(n)>> ELSE Decimal(n \div 10) \o <<Digit(n % 10)>>

DigitVal(c) == CASE c = "0" -> 0 [] c = "1" -> 1 [] c = "2" -> 2 [] c = "3" -> 3
                 [] c = "4" -> 4 [] c = "5" -> 5 [] c = "6" -> 6 [] c = "7" -> 7
                 [] c = "8" -> 8 [] c = "9" -> 9 [] OTHER -> -1

RECURSIVE ParseDigits(_, _)
ParseDigits(s, acc) ==
    IF acc < 0 \/ s = <<>> THEN acc
    ELSE IF DigitVal(Head(s)) < 0 \/ acc * 10 + DigitVal(Head(s)) > U16Max THEN -1
    ELSE ParseDigits(Tail(s), acc * 10 + DigitVal(Head(s)))

\* str::parse::<u16>
parse_u16(s) ==
    IF s = <<>> \/ ParseDigits(s, 0) < 0
    THEN [ok |-> FALSE, val |-> 0]
    ELSE [ok |-> TRUE, val |-> ParseDigits(s, 0)]

\* Python's json.loads on a Rust String
json_loads(s) ==
    IF s.text = "json" THEN [ok |-> TRUE, obj |-> s.obj]
    ELSE [ok |-> FALSE, obj |-> EmptyObj]

\* --------------------------------------------------------------------- URLs
\* Url::parse, by table over the URLs the model uses
UrlParse(u) ==
    CASE u = "http://a.test/x"        -> [ok |-> TRUE,  scheme |-> "http",  host |-> "a.test"]
      [] u = "https://api.b.test/y"   -> [ok |-> TRUE,  scheme |-> "https", host |-> "api.b.test"]
      [] u = "http://proxy.test:8080" -> [ok |-> TRUE,  scheme |-> "http",  host |-> "proxy.test"]
      [] u = "http://px2.test:3128"   -> [ok |-> TRUE,  scheme |-> "http",  host |-> "px2.test"]
      [] u = "http://px3.test:8443"   -> [ok |-> TRUE,  scheme |-> "http",  host |-> "px3.test"]
      [] u = "data:text/plain,hi"     -> [ok |-> TRUE,  scheme |-> "data",  host |-> NoneStr]
      [] OTHER                        -> [ok |-> FALSE, scheme |-> "",      host |-> ""]

\* reqwest::Proxy::{all,http,https}: Err on a URL that is no proxy URL
ProxyUrlOk(u) == UrlParse(u).ok

\* ------------------------------------------------------------ ProxyConfig
NoneProxy == [is_some |-> FALSE]          \* Option<ProxyConfig>::None
NoneList  == [is_some |-> FALSE, list |-> <<>>]
SomeList(l) == [is_some |-> TRUE, list |-> l]

ProxyConfig(http, https, all, no_proxy, username, password) ==
    [is_some |-> TRUE, http |-> http, https |-> https, all |-> all,
     no_proxy |-> no_proxy, username |-> username, password |-> password]

\* ProxyConfig::from_url
from_url(u) == ProxyConfig(NoneStr, NoneStr, u, NoneList, NoneStr, NoneStr)

P_all_ok  == from_url("http://proxy.test:8080")
P_all_bad == from_url("::not a proxy::")

\* ------------------------------------------------------------------ clients
\* the proxy URL handed to reqwest, with the credentials set on it
ProxyUrl(u, user, pass) == [url |-> u, username |-> user, password |-> pass]
NoProxyUrl == ProxyUrl(NoneStr, NoneStr, NoneStr)

\* the process-wide client: Client::builder() with no proxy
GLOBAL_CLIENT == [origin |-> "GLOBAL_CLIENT", proxy |-> NoProxyUrl, scope |-> "none"]
NoneClient == [is_some |-> FALSE, client |-> GLOBAL_CLIENT]
SomeClient(c) == [is_some |-> TRUE, client |-> c]
FreshClient(proxy, scope) == [origin |-> "fresh", proxy |-> proxy, scope |-> scope]
ClientOk(c)  == [ok |-> TRUE, client |-> c, err |-> ""]
\* the error of the builder is dropped and the process-wide client used instead
ClientErr_fallback(e) == [ok |-> TRUE, client |-> GLOBAL_CLIENT, err |-> e]
ClientErr(e) == [ok |-> FALSE, client |-> GLOBAL_CLIENT, err |-> e]

\* str::contains(host, pattern), by table over the hosts the model uses
HostContains(host, pat) ==
    \/ pat = ""
    \/ pat = host
    \/ host = "a.test"     /\ pat \in {"test", ".test", "a."}
    \/ host = "api.b.test" /\ pat \in {"test", ".test", "b.test", "api", "api.b"}

\* lib.rs: should_use_proxy
should_use_proxy(url, no_proxy) ==
    IF /\ no_proxy.is_some
       /\ UrlParse(url).ok
       /\ UrlParse(url).host # NoneStr
       /\ \E k \in 1..Len(no_proxy.list) :
             HostContains(UrlParse(url).host, no_proxy.list[k]) \/ no_proxy.list[k] = "*"
    THEN FALSE
    ELSE TRUE

\* a target URL that does not parse is taken to have no scheme-specific proxy
SchemeProxy_unparsedIsNone(url, pc) ==
    IF ~UrlParse(url).ok THEN ClientOk(FreshClient(NoProxyUrl, "none"))
    ELSE IF UrlParse(url).scheme = "http" /\ pc.http # NoneStr
    THEN IF ProxyUrlOk(pc.http)
         THEN ClientOk(FreshClient(ProxyUrl(pc.http, NoneStr, NoneStr), "http"))
         ELSE ClientErr("builder error")
    ELSE IF UrlParse(url).scheme = "https" /\ pc.https # NoneStr
    THEN IF ProxyUrlOk(pc.https)
         THEN ClientOk(FreshClient(ProxyUrl(pc.https, NoneStr, NoneStr), "https"))
         ELSE ClientErr("builder error")
    ELSE ClientOk(FreshClient(NoProxyUrl, "none"))

\* The scheme-specific branch shared by both copies of create_client_with_proxy
SchemeProxy(url, pc) ==
    IF ~UrlParse(url).ok THEN ClientErr("relative URL without a base")
    ELSE IF UrlParse(url).scheme = "http" /\ pc.http # NoneStr
    THEN IF ProxyUrlOk(pc.http)
         THEN ClientOk(FreshClient(ProxyUrl(pc.http, NoneStr, NoneStr), "http"))
         ELSE ClientErr("builder error")
    ELSE IF UrlParse(url).scheme = "https" /\ pc.https # NoneStr
    THEN IF ProxyUrlOk(pc.https)
         THEN ClientOk(FreshClient(ProxyUrl(pc.https, NoneStr, NoneStr), "https"))
         ELSE ClientErr("builder error")
    ELSE ClientOk(FreshClient(NoProxyUrl, "none"))

\* request/executor.rs: create_client_with_proxy (no no_proxy test; credentials)
create_client_with_proxy_modules(url, pc) ==
    IF pc.all # NoneStr
    THEN IF pc.username # NoneStr /\ ~UrlParse(pc.all).ok
         THEN ClientErr("relative URL without a base")
         ELSE IF ~ProxyUrlOk(pc.all) THEN ClientErr("builder error")
         ELSE ClientOk(FreshClient(
                 ProxyUrl(pc.all, pc.username,
                          IF pc.username # NoneStr THEN pc.password ELSE NoneStr),
                 "all"))
    ELSE SchemeProxy(url, pc)

\* lib.rs: create_client_with_proxy (no_proxy test; no credentials)
create_client_with_proxy_lib(url, pc) ==
    IF should_use_proxy(url, pc.no_proxy)
    THEN IF pc.all # NoneStr
         THEN IF ProxyUrlOk(pc.all)
              THEN ClientOk(FreshClient(ProxyUrl(pc.all, NoneStr, NoneStr), "all"))
              ELSE ClientErr("builder error")
         ELSE SchemeProxy(url, pc)
    ELSE ClientOk(FreshClient(NoProxyUrl, "none"))

\* the scheme-specific entry is tried first, all only when it is unset
create_client_with_proxy_schemeFirst(b, url, pc) ==
    IF UrlParse(url).ok /\ SchemeProxy(url, pc).client.proxy # NoProxyUrl
    THEN SchemeProxy(url, pc)
    ELSE IF b = "modules" THEN create_client_with_proxy_modules(url, pc)
    ELSE create_client_with_proxy_lib(url, pc)

create_client_with_proxy(b, url, pc) ==
    IF b = "modules" THEN create_client_with_proxy_modules(url, pc)
    ELSE create_client_with_proxy_lib(url, pc)

\* ------------------------------------------------------------ RequestItem
RequestItem(url, timeout, tag, proxy) ==
    [url |-> url, timeout |-> timeout, tag |-> tag, proxy |-> proxy]

\* -------------------------------------------------- result records (HashMap)
StampedTime == "<start> -> <end>"     \* format!("{} -> {}", start_str, end_str)
ElapsedTime == "<elapsed>"            \* format!("{:.4}", process_time)

\* the meta object: tag is inserted only when req.tag is Some
MetaObj(request_time, process_time, tag) ==
    IF tag = NoneStr
    THEN [request_time |-> request_time, process_time |-> process_time]
    ELSE [request_time |-> request_time, process_time |-> process_time, tag |-> tag]

ExcObj(type, message) == [type |-> type, message |-> message]
EmptyResponse == Json([headers |-> EmptyObj, content |-> ""])

\* the early return of execute_single_request on Err(e) of the proxy client
ProxyErrorRecord(req, e) ==
    [response    |-> EmptyString,
     http_status |-> Decimal(0),
     exception   |-> Json(ExcObj("ProxyError", <<"Proxy configuration error: ", e>>)),
     meta        |-> Json(MetaObj("", "0.0000", req.tag))]

\* StatusCode::is_success
is_success(status) == status >= 200 /\ status < 300

\* a status outside the success range reported as a transport error
ResponseRecord_asHttpError(req, status, headers, text) ==
    [response    |-> IF is_success(status)
                     THEN Json([headers |-> headers, content |-> text])
                     ELSE EmptyResponse,
     http_status |-> IF is_success(status) THEN Decimal(status) ELSE Decimal(0),
     exception   |-> IF is_success(status) THEN Json(EmptyObj)
                     ELSE Json(ExcObj("HttpError", <<"Request error: ", "status">>)),
     meta        |-> Json(MetaObj(StampedTime, ElapsedTime, req.tag))]

\* Ok(Ok(res)) arm
ResponseRecord(req, status, headers, text) ==
    [response    |-> Json([headers |-> headers, content |-> text]),
     http_status |-> Decimal(status),
     exception   |-> IF is_success(status) THEN Json(EmptyObj)
                     ELSE Json(ExcObj("HttpStatusError",
                                      <<"HTTP status error: ">> \o Decimal(status))),
     meta        |-> Json(MetaObj(StampedTime, ElapsedTime, req.tag))]

\* Ok(Err(e)) arm
HttpErrorRecord(req, e) ==
    [response    |-> EmptyResponse,
     http_status |-> Decimal(0),
     exception   |-> Json(ExcObj("HttpError", <<"Request error: ", e>>)),
     meta        |-> Json(MetaObj(StampedTime, ElapsedTime, req.tag))]

\* the timeout reported with the status 408 Request Timeout
TimeoutRecord_status408(req, secs) ==
    [response    |-> EmptyResponse,
     http_status |-> Decimal(408),
     exception   |-> Json(ExcObj("Timeout",
                        <<"Request timeout after ">> \o Decimal(secs) \o <<".00 seconds">>)),
     meta        |-> Json(MetaObj(StampedTime, ElapsedTime, req.tag))]

\* Err(_) arm
TimeoutRecord(req, secs) ==
    [response    |-> EmptyResponse,
     http_status |-> Decimal(0),
     exception   |-> Json(ExcObj("Timeout",
                        <<"Request timeout after ">> \o Decimal(secs) \o <<".00 seconds">>)),
     meta        |-> Json(MetaObj(StampedTime, ElapsedTime, req.tag))]

\* request/concurrency.rs: the record both aggregators build on Err(_)
GlobalTimeoutRecord_modules == [http_status |-> Decimal(0)]

\* lib.rs: the record both aggregators build on Err(_)
GlobalTimeoutRecord_lib ==
    [response    |-> EmptyResponse,
     http_status |-> Decimal(0),
     exception   |-> Json(ExcObj("GlobalTimeout",
                                 <<"Request timed out due to global timeout">>)),
     meta        |-> Json([request_time |-> "", process_time |-> "0.0000"])]

GlobalTimeoutRecord(b) ==
    IF b = "modules" THEN GlobalTimeoutRecord_modules ELSE GlobalTimeoutRecord_lib

\* ----------------------------------------------- execute_single_request
\* the process-wide proxy wins over the descriptor's own
resolve_proxy_globalFirst(req, gp) == IF gp.is_some THEN gp ELSE req.proxy

\* if req.proxy.is_some() { req.proxy.clone() } else { GLOBAL_PROXY.lock().await.clone() }
resolve_proxy(req, gp) == IF req.proxy.is_some THEN req.proxy ELSE gp

\* the request's timeout without the 3.0 floor
effective_timeout_nofloor(req) ==
    from_secs_f64(unwrap_or(req.timeout, DefaultTimeout))

\* Duration::from_secs_f64(req.timeout.unwrap_or(30.0).max(3.0))
effective_timeout(req) ==
    from_secs_f64(f64_max(unwrap_or(req.timeout, DefaultTimeout), F(MinTimeout)))

\* From entry to the first network await: resolve the proxy, pick the client,
\* compute the timeout.  gp is the value read under GLOBAL_PROXY's lock.
ExecStart(b, req, base_client, gp) ==
    LET proxy_config == resolve_proxy(req, gp)
        built   == create_client_with_proxy(b, req.url, proxy_config)
        timeout == effective_timeout(req)
        client  == IF proxy_config.is_some THEN built.client
                   ELSE IF base_client.is_some THEN base_client.client
                   ELSE GLOBAL_CLIENT
    IN  IF proxy_config.is_some /\ ~built.ok
        THEN [kind |-> "return", result |-> ProxyErrorRecord(req, built.err),
              proxy_config |-> proxy_config, client |-> GLOBAL_CLIENT,
              request_timeout |-> 0, timeout |-> 0]
        ELSE IF ~timeout.ok
        THEN [kind |-> "panic", result |-> EmptyObj,
              proxy_config |-> proxy_config, client |-> client,
              request_timeout |-> 0, timeout |-> 0]
        ELSE [kind |-> "send", result |-> EmptyObj,
              proxy_config |-> proxy_config, client |-> client,
              request_timeout |-> timeout.secs,  \* request_builder.timeout(timeout)
              timeout |-> timeout.secs]          \* tokio::time::timeout(timeout, ..)

\* ------------------------------------------------------- params of a request
\* A str is the sequence of its characters; two characters have names.
DQ == "DQUOTE"     \* the character "
BS == "BSLASH"     \* the character \

\* the values of a Python dict, and serde_json::Value
\* a Python value of type py: the int n, the str s or the bool b
PyVal(py, n, str, b) == [py |-> py, n |-> n, s |-> str, b |-> b]
\* Value::Number(n), Value::String(s), Value::Bool(b)
JVal(json, n, str, b) == [json |-> json, n |-> n, s |-> str, b |-> b]

NoneDict == [is_some |-> FALSE, items |-> <<>>]      \* Option<Py<PyDict>>::None
SomeDict(items) == [is_some |-> TRUE, items |-> items]  \* <<key, value>> as inserted

\* utils/py_to_json.rs on one value: bool, String, i64 are tried in this order,
\* anything else becomes the string of its str()
py_to_json(v) ==
    IF v.py = "bool" THEN JVal("Bool", 0, <<>>, v.b)
    ELSE IF v.py = "str" THEN JVal("String", 0, v.s, FALSE)
    ELSE IF v.py = "int" THEN JVal("Number", v.n, <<>>, FALSE)
    ELSE JVal("String", 0, <<"N", "o", "n", "e">>, FALSE)

\* the order of the keys of a serde_json::Map without preserve_order (BTreeMap)
KeyRank(k) == CASE k = "a" -> 1 [] k = "b" -> 2 [] OTHER -> 3

\* utils/py_to_json.rs on a dict: map.insert(k.to_string(), py_to_json(py, v)?).
\* The Map iterates in insertion order when serde_json is built with
\* preserve_order, in the order of the keys otherwise.
py_to_json_dict(items, preserve_order) ==
    LET js == [i \in 1..Len(items) |-> <<items[i][1], py_to_json(items[i][2])>>]
    IN  IF preserve_order THEN js
        ELSE CHOOSE q \in [1..Len(js) -> {js[i] : i \in 1..Len(js)}] :
                 /\ {q[i] : i \in 1..Len(js)} = {js[i] : i \in 1..Len(js)}
                 /\ \A i, j \in 1..Len(js) : i < j => KeyRank(q[i][1]) < KeyRank(q[j][1])

RECURSIVE json_escape(_)
\* the characters of a JSON string literal between its quotes
json_escape(str) ==
    IF str = <<>> THEN <<>>
    ELSE (IF Head(str) \in {DQ, BS} THEN <<BS, Head(str)>> ELSE <<Head(str)>>)
             \o json_escape(Tail(str))

\* Value::to_string
value_to_string(j) ==
    IF j.json = "Number" THEN Decimal(j.n)
    ELSE IF j.json = "Bool"
    THEN (IF j.b THEN <<"t", "r", "u", "e">> ELSE <<"f", "a", "l", "s", "e">>)
    ELSE <<DQ>> \o json_escape(j.s) \o <<DQ>>

RECURSIVE trim_start_matches(_, _)
trim_start_matches(str, c) ==
    IF str # <<>> /\ Head(str) = c THEN trim_start_matches(Tail(str), c) ELSE str

RECURSIVE trim_end_matches(_, _)
trim_end_matches(str, c) ==
    IF str # <<>> /\ str[Len(str)] = c
    THEN trim_end_matches(SubSeq(str, 1, Len(str) - 1), c) ELSE str

\* str::trim_matches
trim_matches(str, c) == trim_end_matches(trim_start_matches(str, c), c)

\* req.method.unwrap_or("GET").to_uppercase().parse::<Method>().unwrap_or(GET),
\* by table over the methods the model uses
ParseMethod(method) ==
    CASE method = NoneStr -> "GET"
      [] method = "get" -> "GET"
      [] method = "delete" -> "DELETE"
      [] method = "post" -> "POST"
      [] method = "PUT" -> "PUT"
      [] OTHER -> "GET"

NoBody == [set |-> FALSE, json |-> <<>>]

\* execute_single_request, the params of the request: what request_builder
\* holds before send
RequestParams(method, params, preserve_order) ==
    LET m    == ParseMethod(method)
        json == py_to_json_dict(params.items, preserve_order)
    IN  IF ~params.is_some THEN [method |-> m, query |-> <<>>, body |-> NoBody]
        ELSE IF m \in {"GET", "DELETE"}
        THEN [method |-> m,
              query |-> [i \in 1..Len(json) |->
                            <<json[i][1], trim_matches(value_to_string(json[i][2]), DQ)>>],
              body |-> NoBody]
        ELSE [method |-> m, query |-> <<>>, body |-> [set |-> TRUE, json |-> json]]

\* ------------------------------------------------------------- the debug sink
Console == [kind |-> "Console", path |-> ""]      \* DebugTarget::Console
File(path) == [kind |-> "File", path |-> path]    \* DebugTarget::File(path)
DebugConfig(enabled, target) == [enabled |-> enabled, target |-> target]

\* str::to_lowercase, by table over the targets the model uses
to_lowercase(t) == IF t = "Console" THEN "console" ELSE t
\* Path::is_dir: "logs" is a directory
is_dir(t) == t = "logs"
\* OpenOptions::new().create(true).append(true).open(path) and writeln!: Err
\* where the directory of the path does not exist
FileWritable(path) == path # "/no/such/dir/debug.log"

\* the target set_debug stores for its argument
DebugTargetOf(target) ==
    IF target = NoneStr THEN Console
    ELSE IF to_lowercase(target) = "console" \/ target = "" THEN Console
    ELSE IF is_dir(target) THEN File("logs/debug.log")
    ELSE File(target)

\* let tag = req.tag.clone().unwrap_or_else(|| "no-tag".to_string())
DebugTag(req) == IF req.tag = NoneStr THEN "no-tag" ELSE req.tag

\* debug_log, first read of DEBUG_CONFIG: it returns at once when disabled
is_debug(cfg) == cfg.enabled

\* debug_log, second read of DEBUG_CONFIG: the message goes to the target read
\* now.  println! panics when the write to stdout fails; an error of the file is
\* dropped.  out is what was written so far, stdout_ok whether stdout takes it.
debug_output(target, out, msg, stdout_ok) ==
    IF target.kind = "Console"
    THEN IF stdout_ok
         THEN [panic |-> FALSE,
               out |-> Append(out, [to |-> "stdout", tag |-> msg.tag, url |-> msg.url,
                                    status |-> msg.status])]
         ELSE [panic |-> TRUE, out |-> out]
    ELSE IF FileWritable(target.path)
    THEN [panic |-> FALSE,
          out |-> Append(out, [to |-> target.path, tag |-> msg.tag, url |-> msg.url,
                               status |-> msg.status])]
    ELSE [panic |-> FALSE, out |-> out]

\* --------------------------------------------------------------- HttpVersion
\* A text is the sequence of its characters.  The lower-case letters with their
\* upper-case forms.
CasePairs ==
    { <<"a", "A">>, <<"b", "B">>, <<"c", "C">>, <<"d", "D">>, <<"e", "E">>, <<"f",
      "F">>, <<"g", "G">>, <<"h", "H">>, <<"i", "I">>, <<"j", "J">>, <<"k", "K">>,
      <<"l", "L">>, <<"m", "M">>, <<"n", "N">>, <<"o", "O">>, <<"p", "P">>, <<"q",
      "Q">>, <<"r", "R">>, <<"s", "S">>, <<"t", "T">>, <<"u", "U">>, <<"v", "V">>,
      <<"w", "W">>, <<"x", "X">>, <<"y", "Y">>, <<"z", "Z">> }

\* char::to_uppercase: every other character of the model's texts is its own
to_uppercase_char(c) ==
    IF \E p \in CasePairs : p[1] = c
    THEN (CHOOSE p \in CasePairs : p[1] = c)[2]
    ELSE c

\* str::to_uppercase
to_uppercase(s) == [k \in 1..Len(s) |-> to_uppercase_char(s[k])]

HttpVersions == {"Auto", "Http1Only", "Http2", "Http2PriorKnowledge"}

\* HttpVersion::__str__
HttpVersion_str(v) ==
    CASE v = "Auto"                -> <<"A", "U", "T", "O">>
      [] v = "Http1Only"           -> <<"H", "T", "T", "P", "1", "_", "O", "N", "L", "Y">>
      [] v = "Http2"               -> <<"H", "T", "T", "P", "2">>
      [] v = "Http2PriorKnowledge" -> <<"H", "T", "T", "P", "2", "_", "P", "R", "I", "O", "R", "_", "K", "N", "O", "W", "L", "E", "D", "G", "E">>

\* the text is matched as it is written
from_str_caseSensitive(s) ==
    IF s \in {<<"A", "U", "T", "O">>, <<>>}
    THEN [ok |-> TRUE, v |-> "Auto"]
    ELSE IF s \in {<<"H", "T", "T", "P", "1">>,
                   <<"H", "T", "T", "P", "1", ".", "1">>,
                   <<"H", "T", "T", "P", "1", "_", "O", "N", "L", "Y">>}
    THEN [ok |-> TRUE, v |-> "Http1Only"]
    ELSE IF s = <<"H", "T", "T", "P", "2">>
    THEN [ok |-> TRUE, v |-> "Http2"]
    ELSE IF s \in {<<"H", "T", "T", "P", "2", "_", "P", "R", "I", "O", "R", "_", "K", "N", "O", "W", "L", "E", "D", "G", "E">>,
                   <<"F", "O", "R", "C", "E", "_", "H", "T", "T", "P", "2">>,
                   <<"H", "T", "T", "P", "2", "_", "O", "N", "L", "Y">>}
    THEN [ok |-> TRUE, v |-> "Http2PriorKnowledge"]
    ELSE [ok |-> FALSE, v |-> "ValueError"]

\* HttpVersion::from_str: match s.to_uppercase().as_str(), Err(PyValueError) on
\* every other text
from_str(s) ==
    LET u == to_uppercase(s)
    IN  IF u \in {<<"A", "U", "T", "O">>, <<>>}
        THEN [ok |-> TRUE, v |-> "Auto"]
        ELSE IF u \in {<<"H", "T", "T", "P", "1">>,
                       <<"H", "T", "T", "P", "1", ".", "1">>,
                       <<"H", "T", "T", "P", "1", "_", "O", "N", "L", "Y">>}
        THEN [ok |-> TRUE, v |-> "Http1Only"]
        ELSE IF u = <<"H", "T", "T", "P", "2">>
        THEN [ok |-> TRUE, v |-> "Http2"]
        ELSE IF u \in {<<"H", "T", "T", "P", "2", "_", "P", "R", "I", "O", "R", "_", "K", "N", "O", "W", "L", "E", "D", "G", "E">>,
                       <<"F", "O", "R", "C", "E", "_", "H", "T", "T", "P", "2">>,
                       <<"H", "T", "T", "P", "2", "_", "O", "N", "L", "Y">>}
        THEN [ok |-> TRUE, v |-> "Http2PriorKnowledge"]
        ELSE [ok |-> FALSE, v |-> "ValueError"]

\* HttpVersion::supports_http2
supports_http2(v) == v \in {"Auto", "Http2", "Http2PriorKnowledge"}

\* HttpVersion::is_http2_forced
is_http2_forced(v) == v = "Http2PriorKnowledge"

\* Client::builder(), as far as the protocol goes
ClientBuilder == [http1_only |-> FALSE, http2_prior_knowledge |-> FALSE]

\* HttpVersion::apply_to_builder
apply_to_builder(v, builder) ==
    CASE v = "Auto"                -> builder
      [] v = "Http1Only"           -> [builder EXCEPT !.http1_only = TRUE]
      [] v = "Http2"               -> builder
      [] v = "Http2PriorKnowledge" -> [builder EXCEPT !.http2_prior_knowledge = TRUE]

\* ------------------------------------------------- fetch_requests: to Python
\* One record of the aggregator's list as the dict handed to Python.
\* res["response"] panics on a missing key; json.loads raises on a non-JSON text.
ToPyDict(res) ==
    LET meta == IF "meta" \in DOMAIN res THEN json_loads(res["meta"])
                ELSE json_loads(Json(EmptyObj))
        exc  == IF "exception" \in DOMAIN res THEN json_loads(res["exception"])
                ELSE [ok |-> TRUE, obj |-> EmptyObj]
    IN  IF "response" \notin DOMAIN res THEN [out |-> "panic", dict |-> EmptyObj]
        ELSE IF ~meta.ok \/ ~exc.ok THEN [out |-> "raise", dict |-> EmptyObj]
        ELSE [out |-> "ok",
              dict |-> [response  |-> res["response"],
                        meta      |-> meta.obj,
                        exception |-> IF "exception" \in DOMAIN res
                                      THEN [set |-> TRUE, obj |-> exc.obj]
                                      ELSE [set |-> FALSE, obj |-> EmptyObj],
                        http_status |->
                            IF "http_status" \notin DOMAIN res
                            THEN [set |-> FALSE, int |-> FALSE, val |-> 0]
                            ELSE [set |-> TRUE,
                                  int |-> parse_u16(res["http_status"]).ok,
                                  val |-> parse_u16(res["http_status"]).val]]]

\* fetch_single: the dict handed to Python for the executor's result.
\* request/executor.rs sets http_status, meta and exception as the Strings of the
\* result; lib.rs converts them as fetch_requests does and sets an exception
\* even where the result has none.
fetch_single_convert(b, result) ==
    IF "response" \notin DOMAIN result THEN [out |-> "panic", dict |-> EmptyObj]
    ELSE IF b = "lib"
    THEN LET d == ToPyDict(result)
         IN  IF d.out = "ok" /\ ~d.dict.exception.set
             THEN [d EXCEPT !.dict.exception = [set |-> TRUE, obj |-> EmptyObj]]
             ELSE d
    ELSE [out |-> "ok",
          dict |-> [response  |-> result["response"],
                    meta      |-> IF "meta" \in DOMAIN result THEN result["meta"]
                                  ELSE Json(EmptyObj),
                    exception |-> [set |-> TRUE,
                                   obj |-> IF "exception" \in DOMAIN result
                                           THEN result["exception"] ELSE Json(EmptyObj)],
                    http_status |-> [set |-> TRUE, int |-> FALSE, val |-> 0]]]

\* --------------------------------------------------------------- the inputs
Urls == {"http://a.test/x", "https://api.b.test/y", "not a url"}

Descriptors ==
    { RequestItem("http://a.test/x",      NoneF64, "a",     NoneProxy),
      RequestItem("https://api.b.test/y", F(1),    NoneStr, NoneProxy),
      RequestItem("http://a.test/x",      F(1),    "b",     P_all_bad),
      RequestItem("https://api.b.test/y", F_Inf,   "c",     NoneProxy),
      RequestItem("not a url",            F(4),    NoneStr, NoneProxy) }

TotalTimeouts == {F(2), F(4), F(-1)}
Modes == {"SELECT_ALL", "JOIN_ALL"}
Builds == {"modules", "lib"}
GlobalProxies == {P_all_ok, P_all_bad}

\* what the network can answer: status, headers, body text
Responses ==
    { [status |-> 200, headers |-> [server |-> "srv"], body |-> [ok |-> TRUE, text |-> "body"]],
      [status |-> 404, headers |-> [server |-> "srv"], body |-> [ok |-> TRUE, text |-> "not found"]] }

\* res.text().await.unwrap_or_else(|e| format!("Failed to read response text: {}", e))
res_text(r) ==
    IF r.body.ok THEN r.body.text
    ELSE "Failed to read response text: error decoding response body"

Batches == UNION { [1..k -> Descriptors] : k \in 0..MaxN }

\* ----------------------------------------------------------------- the state
VARIABLES
    build,          \* which copy of the code is compiled
    phase,          \* "idle", "aggregating", "collected", "returned", "raised", "panicked"
    mode,           \* ConcurrencyMode of the batch
    requests,       \* the batch
    total_duration, \* seconds
    now,            \* the clock, seconds
    next,           \* next descriptor to be polled for the first time
    task,           \* per descriptor: its timeout wrapper and executor
    slots,          \* join_all(futures): the outputs collected so far
    results,        \* the Vec the aggregator builds and returns
    output,         \* the Python list
    GLOBAL_PROXY,   \* Mutex<Option<ProxyConfig>>
    call,           \* the last function called on its own, with its arguments
    ret,            \* what it returned
    DEBUG_CONFIG,   \* RwLock<DebugConfig>
    debug_out       \* what debug_log has written to the console or the file

vars == <<build, phase, mode, requests, total_duration, now, next, task, slots,
          results, output, GLOBAL_PROXY, call, ret, DEBUG_CONFIG, debug_out>>

NoCall == [fn |-> "none"]
NoRet  == [set |-> FALSE]

N == Len(requests)
NotReady == [pending |-> TRUE]
\* sends counts the calls of request_builder.send(), logged those of debug_log;
\* guard says whether the executor holds a MutexGuard of GLOBAL_PROXY; msg is
\* the message debug_log has formatted and not yet written, seen the
\* DebugConfig its first read returned
NewTask == [st |-> "new", started |-> 0, timeout |-> 0, request_timeout |-> 0,
            proxy_config |-> NoneProxy, client |-> GLOBAL_CLIENT, result |-> EmptyObj,
            sends |-> 0, logged |-> 0, guard |-> FALSE, msg |-> <<>>, seen |-> <<>>]

Init ==
    /\ build \in Builds
    /\ phase = "idle"
    /\ mode = "SELECT_ALL"
    /\ requests = <<>>
    /\ total_duration = 0
    /\ now = 0
    /\ next = 1
    /\ task = <<>>
    /\ slots = <<>>
    /\ results = <<>>
    /\ output = <<>>
    /\ GLOBAL_PROXY = NoneProxy
    /\ call = NoCall
    /\ ret = NoRet
    /\ DEBUG_CONFIG = DebugConfig(FALSE, Console)
    /\ debug_out = <<>>

\* the executor future is gone (returned, dropped by its wrapper, or unwound):
\* its locals no longer exist, result is what it returned
Ended(t, st, result) ==
    [NewTask EXCEPT !.st = st, !.result = result, !.sends = t.sends, !.logged = t.logged]

Inflight(i) == task[i].st = "inflight"

\* the deadline of tokio::time::timeout(timeout, request_builder.send())
ExecDeadline(i) == task[i].started + task[i].timeout

\* the deadline of reqwest's own timer, set by request_builder.timeout(timeout)
RequestDeadline(i) == task[i].started + task[i].request_timeout

\* a fresh total_duration on top of the request's own timeout
WrapperDeadline_afterExec(i) == ExecDeadline(i) + total_duration

\* the deadline of tokio::time::timeout(total_duration, execute_single_request(..)):
\* the wrapper and its executor are first polled at the same instant
WrapperDeadline(i) == task[i].started + total_duration

push_front(v, x) == <<x>> \o v

\* Vec::push
push(v, x) == Append(v, x)

\* ------------------------------------------------------------- aggregators
\* one aggregate timeout overrides every slot of the returned list
SelectAllOutput_override(i, rec, ts, nx) ==
    LET sl == [slots EXCEPT ![i] = rec]
        complete == nx > N /\ \A j \in 1..N : sl[j] # NotReady
        fired == \E j \in 1..N : ts[j].st = "dropped"
    IN  /\ task' = ts
        /\ next' = nx
        /\ slots' = sl
        /\ results' = IF complete
                      THEN [j \in 1..N |-> IF fired THEN GlobalTimeoutRecord(build) ELSE sl[j]]
                      ELSE results
        /\ phase' = IF complete THEN "collected" ELSE phase

\* The output of the timeout wrapper of descriptor i becomes known: rec.
\* ts is the task table after the step, nx the next descriptor to poll.
\* execute_with_select_all: futures::join_all keeps it in slot i and returns the
\* slots in input order once every future has been polled and is done.
SelectAllOutput(i, rec, ts, nx) ==
    LET sl == [slots EXCEPT ![i] = rec]
        complete == nx > N /\ \A j \in 1..N : sl[j] # NotReady
    IN  /\ task' = ts
        /\ next' = nx
        /\ slots' = sl
        /\ results' = IF complete THEN sl ELSE results
        /\ phase' = IF complete THEN "collected" ELSE phase

\* a failure record of one descriptor is replaced by the aggregate-timeout record
JoinAllOutput_strict(i, rec, ts) ==
    /\ task' = ts
    /\ next' = i + 1
    /\ slots' = slots
    /\ results' = push(results,
                       IF "exception" \in DOMAIN rec /\ rec["exception"] # Json(EmptyObj)
                       THEN GlobalTimeoutRecord_lib ELSE rec)
    /\ phase' = IF i + 1 > N THEN "collected" ELSE phase

\* execute_with_join_all: the loop pushes it and goes on to the next descriptor.
JoinAllOutput(i, rec, ts) ==
    /\ task' = ts
    /\ next' = i + 1
    /\ slots' = slots
    /\ results' = push(results, rec)
    /\ phase' = IF i + 1 > N THEN "collected" ELSE phase

\* select_all collects the outputs in the order in which they become known
Output_completionOrder(i, rec, ts, nx) ==
    LET free == CHOOSE k \in 1..N : slots[k] = NotReady /\ \A j \in 1..(k - 1) : slots[j] # NotReady
        sl == [slots EXCEPT ![free] = rec]
        complete == nx > N /\ \A j \in 1..N : sl[j] # NotReady
    IN  IF mode = "SELECT_ALL"
        THEN /\ task' = ts
             /\ next' = nx
             /\ slots' = sl
             /\ results' = IF complete THEN sl ELSE results
             /\ phase' = IF complete THEN "collected" ELSE phase
        ELSE JoinAllOutput(i, rec, ts)

Output(i, rec, ts, nx) ==
    IF mode = "SELECT_ALL" THEN SelectAllOutput(i, rec, ts, nx)
    ELSE JoinAllOutput(i, rec, ts)

\* The MutexGuard of GLOBAL_PROXY.lock().await.clone() is a temporary of the let
\* statement that reads the proxy: it is dropped before the next await, so no
\* executor waiting in send holds it.
GuardAtSend(req) == FALSE

\* First poll of wrapper i: execute_single_request runs up to send().await,
\* returns the ProxyError record, or panics in Duration::from_secs_f64.
Launch(i) ==
    LET s  == ExecStart(build, requests[i], SomeClient(GLOBAL_CLIENT), GLOBAL_PROXY)
        t1 == [task[i] EXCEPT !.started = now, !.timeout = s.timeout,
                              !.request_timeout = s.request_timeout,
                              !.proxy_config = s.proxy_config, !.client = s.client]
    IN  CASE s.kind = "panic" ->
               /\ task' = [task EXCEPT ![i] = Ended(task[i], "panicked", EmptyObj)]
               /\ phase' = "panicked"
               /\ UNCHANGED <<next, slots, results>>
          [] s.kind = "return" ->
               Output(i, s.result,
                      [task EXCEPT ![i] = Ended(task[i], "done", s.result)],
                      i + 1)
          [] s.kind = "send" ->
               /\ task' = [task EXCEPT ![i] = [t1 EXCEPT !.st = "inflight",
                                                         !.sends = task[i].sends + 1,
                                                         !.guard = GuardAtSend(requests[i])]]
               /\ next' = IF mode = "SELECT_ALL" THEN i + 1 ELSE next
               /\ UNCHANGED <<phase, slots, results>>

\* pyfunction fetch_requests, up to the call of the aggregator
fetch_requests(reqs, total_timeout, m) ==
    LET td == from_secs_f64(unwrap_or(total_timeout, DefaultTotalTimeout))
    IN  /\ phase = "idle"
        /\ IF ~td.ok
           THEN /\ phase' = "panicked"
                /\ UNCHANGED <<mode, requests, total_duration, next, task, slots, results>>
           ELSE /\ requests' = reqs
                /\ mode' = m
                /\ total_duration' = td.secs
                /\ next' = 1
                /\ task' = [i \in 1..Len(reqs) |-> NewTask]
                /\ slots' = [i \in 1..Len(reqs) |-> NotReady]
                /\ results' = <<>>
                /\ phase' = IF Len(reqs) = 0 THEN "collected" ELSE "aggregating"
        /\ UNCHANGED <<DEBUG_CONFIG, debug_out, call, ret, build, now, output, GLOBAL_PROXY>>

\* execute_with_select_all: join_all polls every wrapper once, in input order
execute_with_select_all(i) ==
    /\ phase = "aggregating"
    /\ mode = "SELECT_ALL"
    /\ i = next
    /\ i <= N
    /\ Launch(i)
    /\ UNCHANGED <<DEBUG_CONFIG, debug_out, call, ret, build, mode, requests, total_duration, now, output, GLOBAL_PROXY>>

\* execute_with_join_all: one iteration of `for req in requests`
execute_with_join_all(i) ==
    /\ phase = "aggregating"
    /\ mode = "JOIN_ALL"
    /\ i = next
    /\ i <= N
    /\ task[i].st = "new"
    /\ Launch(i)
    /\ UNCHANGED <<DEBUG_CONFIG, debug_out, call, ret, build, mode, requests, total_duration, now, output, GLOBAL_PROXY>>

\* The executor of descriptor i ends with record rec, its wrapper yields Ok(rec);
\* logs is the number of debug_log calls of the arm taken.
ExecutorReturns(i, rec, logs) ==
    /\ phase = "aggregating"
    /\ task[i].st \in {"inflight", "logging"}
    /\ Output(i, rec,
              [task EXCEPT ![i] = [Ended(task[i], "done", rec)
                                      EXCEPT !.logged = task[i].logged + logs]],
              next)
    /\ UNCHANGED <<DEBUG_CONFIG, call, ret, build, mode, requests, total_duration, now, output,
                   GLOBAL_PROXY>>

\* Ok(Ok(res)): a response arrives, its body is read and debug_log is called.
\* With the debug mode off debug_log returns and the executor ends; with it on
\* the message is formatted and the write is still to come.
NetRespond(i, r) ==
    LET rec == ResponseRecord(requests[i], r.status, r.headers, res_text(r))
    IN  /\ i \in 1..N
        /\ UrlParse(requests[i].url).ok
        /\ Inflight(i)
        /\ IF ~is_debug(DEBUG_CONFIG)
           THEN /\ ExecutorReturns(i, rec, 1)
                /\ UNCHANGED debug_out
           ELSE /\ phase = "aggregating"
                /\ task' = [task EXCEPT ![i] =
                               [task[i] EXCEPT !.st = "logging",
                                               !.result = rec,
                                               !.logged = task[i].logged + 1,
                                               !.msg = [tag |-> DebugTag(requests[i]),
                                                        url |-> requests[i].url,
                                                        status |-> r.status],
                                               !.seen = DEBUG_CONFIG]]
                /\ UNCHANGED <<DEBUG_CONFIG, debug_out, call, ret, build, phase, mode,
                               requests, total_duration, now, next, slots, results, output,
                               GLOBAL_PROXY>>

\* debug_log reads DEBUG_CONFIG again for the target and writes; set_debug may
\* have run on Python's thread since the first read.  Then the executor ends.
debug_log(i) ==
    /\ i \in 1..N
    /\ phase = "aggregating"
    /\ task[i].st = "logging"
    /\ \E stdout_ok \in BOOLEAN :
          LET d == debug_output(DEBUG_CONFIG.target, debug_out, task[i].msg, stdout_ok)
          IN  /\ debug_out' = d.out
              /\ IF d.panic
                 THEN /\ task' = [task EXCEPT ![i] = Ended(task[i], "panicked", EmptyObj)]
                      /\ phase' = "panicked"
                      /\ UNCHANGED <<DEBUG_CONFIG, call, ret, build, mode, requests,
                                     total_duration, now, next, slots, results, output,
                                     GLOBAL_PROXY>>
                 ELSE ExecutorReturns(i, task[i].result, 0)

\* Ok(Err(e)): send fails (at once when the URL does not parse)
NetFail(i) ==
    /\ i \in 1..N
    /\ Inflight(i)
    /\ ExecutorReturns(i, HttpErrorRecord(requests[i],
            IF UrlParse(requests[i].url).ok THEN "error sending request"
            ELSE "builder error"), 0)
    /\ UNCHANGED debug_out

\* Ok(Err(e)): reqwest's own timer of the request elapses while send is pending
RequestTimeout(i) ==
    /\ i \in 1..N
    /\ Inflight(i)
    /\ now >= RequestDeadline(i)
    /\ ExecutorReturns(i, HttpErrorRecord(requests[i],
                                          "error sending request: operation timed out"), 0)
    /\ UNCHANGED debug_out

\* a timeout is followed by one more send
ExecTimeout_retry(i) ==
    /\ i \in 1..N
    /\ Inflight(i)
    /\ now >= ExecDeadline(i)
    /\ IF task[i].sends < 2
       THEN /\ phase = "aggregating"
            /\ task' = [task EXCEPT ![i].sends = task[i].sends + 1, ![i].started = now]
            /\ UNCHANGED <<DEBUG_CONFIG, call, ret, build, phase, mode, requests,
                           total_duration, now, next, slots, results, output, GLOBAL_PROXY>>
       ELSE ExecutorReturns(i, TimeoutRecord(requests[i], task[i].timeout), 0)
    /\ UNCHANGED debug_out

\* Err(_): the timeout wrapper around send elapses
ExecTimeout(i) ==
    /\ i \in 1..N
    /\ Inflight(i)
    /\ now >= ExecDeadline(i)
    /\ ExecutorReturns(i, TimeoutRecord(requests[i], task[i].timeout), 0)
    /\ UNCHANGED debug_out

\* dropping the executor also clears the process-wide proxy
WrapperTimeout_clears(i) ==
    /\ phase = "aggregating"
    /\ i \in 1..N
    /\ Inflight(i)
    /\ now >= WrapperDeadline(i)
    /\ Output(i, GlobalTimeoutRecord(build), [task EXCEPT ![i] = Ended(task[i], "dropped", EmptyObj)], next)
    /\ GLOBAL_PROXY' = NoneProxy
    /\ UNCHANGED <<DEBUG_CONFIG, debug_out, call, ret, build, mode, requests, total_duration, now, output>>

\* Err(_) of the wrapper: total_duration elapses, the executor is dropped
WrapperTimeout(i) ==
    /\ phase = "aggregating"
    /\ i \in 1..N
    /\ Inflight(i)
    /\ now >= WrapperDeadline(i)
    /\ Output(i, GlobalTimeoutRecord(build), [task EXCEPT ![i] = Ended(task[i], "dropped", EmptyObj)], next)
    /\ UNCHANGED <<DEBUG_CONFIG, debug_out, call, ret, build, mode, requests, total_duration, now, output, GLOBAL_PROXY>>

\* One second passes while the aggregator waits.
Tick ==
    /\ phase = "aggregating"
    /\ mode = "SELECT_ALL" => next > N
    /\ \E i \in 1..N : Inflight(i)
    /\ \A i \in 1..N : Inflight(i) =>
          /\ now < ExecDeadline(i)
          /\ now < RequestDeadline(i)
          /\ now < WrapperDeadline(i)
          /\ UrlParse(requests[i].url).ok
    /\ now' = now + 1
    /\ UNCHANGED <<DEBUG_CONFIG, debug_out, call, ret, build, phase, mode, requests, total_duration, next, task, slots,
                   results, output, GLOBAL_PROXY>>

\* fetch_requests, after the aggregator: Python::with_gil builds the list
fetch_requests_convert ==
    LET ds == [i \in 1..Len(results) |-> ToPyDict(results[i])]
    IN  /\ phase = "collected"
        /\ IF \E i \in 1..Len(ds) : ds[i].out = "panic"
              /\ \A j \in 1..(i - 1) : ds[j].out = "ok"
           THEN phase' = "panicked" /\ output' = output
           ELSE IF \E i \in 1..Len(ds) : ds[i].out # "ok"
           THEN phase' = "raised" /\ output' = output
           ELSE phase' = "returned" /\ output' = [i \in 1..Len(ds) |-> ds[i].dict]
        /\ UNCHANGED <<DEBUG_CONFIG, debug_out, call, ret, build, mode, requests, total_duration, now, next, task, slots,
                       results, GLOBAL_PROXY>>

\* pyfunction set_debug
set_debug(enabled, target) ==
    /\ phase \in {"idle", "aggregating"}
    /\ DEBUG_CONFIG' = DebugConfig(enabled, DebugTargetOf(target))
    /\ UNCHANGED <<debug_out, call, ret, build, phase, mode, requests, total_duration, now,
                   next, task, slots, results, output, GLOBAL_PROXY>>

\* the fields of the stored value are written one by one, http last and lost
set_global_proxy_fieldwise(proxy) ==
    /\ \A i \in 1..Len(task) : ~task[i].guard
    /\ call' = [fn |-> "set_global_proxy", proxy |-> proxy]
    /\ IF build = "lib"
       THEN /\ ret' = [set |-> TRUE, val |-> "PanicException"]
            /\ GLOBAL_PROXY' = GLOBAL_PROXY
       ELSE IF ~proxy.is_some
       THEN /\ ret' = [set |-> TRUE, val |-> "TypeError"]
            /\ GLOBAL_PROXY' = GLOBAL_PROXY
       ELSE /\ ret' = [set |-> TRUE, val |-> "None"]
            /\ GLOBAL_PROXY' = IF GLOBAL_PROXY.is_some
                               THEN [proxy EXCEPT !.http = GLOBAL_PROXY.http]
                               ELSE proxy
    /\ UNCHANGED <<DEBUG_CONFIG, debug_out, build, phase, mode, requests, total_duration, now,
                   next, task, slots, results, output>>

\* pyfunction set_global_proxy, called from Python with an argument; call and
\* ret keep the argument and what Python gets back.
\* request/config.rs takes a ProxyConfig (None is no ProxyConfig: TypeError)
\* and replaces the whole value by Some(proxy) under the lock.
\* lib.rs takes an Option<ProxyConfig> and calls Handle::current() on Python's
\* thread, which is outside the runtime: the call panics before the lock.
\* GLOBAL_PROXY.lock().await waits while an executor holds the guard.
set_global_proxy(proxy) ==
    /\ \A i \in 1..Len(task) : ~task[i].guard
    /\ call' = [fn |-> "set_global_proxy", proxy |-> proxy]
    /\ IF build = "lib"
       THEN /\ ret' = [set |-> TRUE, val |-> "PanicException"]
            /\ GLOBAL_PROXY' = GLOBAL_PROXY
       ELSE IF ~proxy.is_some
       THEN /\ ret' = [set |-> TRUE, val |-> "TypeError"]
            /\ GLOBAL_PROXY' = GLOBAL_PROXY
       ELSE /\ ret' = [set |-> TRUE, val |-> "None"]
            /\ GLOBAL_PROXY' = proxy
    /\ UNCHANGED <<DEBUG_CONFIG, debug_out, build, phase, mode, requests, total_duration, now,
                   next, task, slots, results, output>>

Next ==
    \/ \E reqs \in Batches, tt \in TotalTimeouts, m \in Modes : fetch_requests(reqs, tt, m)
    \/ \E i \in 1..N : execute_with_select_all(i)
    \/ \E i \in 1..N : execute_with_join_all(i)
    \/ \E i \in 1..N, r \in Responses : NetRespond(i, r)
    \/ \E i \in 1..N : NetFail(i)
    \/ \E i \in 1..N : RequestTimeout(i)
    \/ \E i \in 1..N : ExecTimeout(i)
    \/ \E i \in 1..N : WrapperTimeout(i)
    \/ Tick
    \/ fetch_requests_convert
    \/ \E p \in GlobalProxies : phase \in {"idle", "aggregating"} /\ set_global_proxy(p)

Spec == Init /\ [][Next]_vars

\* ------------------------------------------ the executor on one descriptor
\* The same program on batches of one descriptor, with every kind of timeout
\* value, an aggregate deadline beyond the default timeout, and a response
\* whose body cannot be read.
ExecTimeouts == {NoneF64, F_NaN, F_Inf, F(-1)} \cup {F(t) : t \in 0..MaxTimeout}

ExecDescriptors ==
    { RequestItem(u, t, tag, p) :
          u \in {"http://a.test/x", "not a url"}, t \in ExecTimeouts,
          tag \in {"a", NoneStr}, p \in {NoneProxy, P_all_bad} }

ExecTotalTimeouts == {F(2), F(4), F(DefaultTimeout + 1)}

ExecResponses ==
    Responses \cup
    { [status |-> 404, headers |-> [server |-> "srv"], body |-> [ok |-> FALSE, text |-> ""]] }

Singles == { <<d>> : d \in ExecDescriptors }

NextExec ==
    \/ \E reqs \in Singles, tt \in ExecTotalTimeouts, m \in Modes : fetch_requests(reqs, tt, m)
    \/ \E i \in 1..N : execute_with_select_all(i)
    \/ \E i \in 1..N : execute_with_join_all(i)
    \/ \E i \in 1..N, r \in ExecResponses : NetRespond(i, r)
    \/ \E i \in 1..N : NetFail(i)
    \/ \E i \in 1..N : RequestTimeout(i)
    \/ \E i \in 1..N : ExecTimeout(i)
    \/ \E i \in 1..N : WrapperTimeout(i)
    \/ Tick
    \/ fetch_requests_convert
    \/ \E p \in GlobalProxies : phase \in {"idle", "aggregating"} /\ set_global_proxy(p)

SpecExec == Init /\ [][NextExec]_vars

\* ------------------------------------------------------ the proxy resolver
\* The same program on batches of one or two descriptors whose proxies set
\* all, http only, or a no_proxy list, under a changing process-wide proxy.
P_http_only   == ProxyConfig("http://px2.test:3128", NoneStr, NoneStr, NoneList, NoneStr, NoneStr)
P_all_bypass  == ProxyConfig(NoneStr, NoneStr, "http://proxy.test:8080",
                             SomeList(<<"b.test">>), NoneStr, NoneStr)
P_all_star    == ProxyConfig(NoneStr, NoneStr, "http://proxy.test:8080",
                             SomeList(<<"*">>), NoneStr, NoneStr)
P_http_bypass == ProxyConfig("http://px2.test:3128", NoneStr, NoneStr,
                             SomeList(<<"zzz", "a.">>), NoneStr, NoneStr)

RequestProxies ==
    {NoneProxy, P_all_ok, P_all_bad, P_http_only, P_all_bypass, P_all_star, P_http_bypass}

ProxyDescriptors ==
    { RequestItem(u, F(1), "a", p) : u \in Urls, p \in RequestProxies }

\* the other descriptor of a batch of two
Companion == RequestItem("http://a.test/x", F(1), "b", NoneProxy)

ProxyBatches ==
    { <<d>> : d \in ProxyDescriptors }
        \cup { <<d, Companion>> : d \in ProxyDescriptors }
        \cup { <<Companion, d>> : d \in ProxyDescriptors }

ProxyGlobals == {NoneProxy, P_all_ok, P_http_only}

NextProxy ==
    \/ \E reqs \in ProxyBatches, m \in Modes : fetch_requests(reqs, F(MinTimeout), m)
    \/ \E i \in 1..N : execute_with_select_all(i)
    \/ \E i \in 1..N : execute_with_join_all(i)
    \/ \E i \in 1..N : NetRespond(i, [status |-> 200, headers |-> [server |-> "srv"],
                                     body |-> [ok |-> TRUE, text |-> "body"]])
    \/ \E i \in 1..N : NetFail(i)
    \/ \E i \in 1..N : RequestTimeout(i)
    \/ \E i \in 1..N : ExecTimeout(i)
    \/ \E i \in 1..N : WrapperTimeout(i)
    \/ Tick
    \/ fetch_requests_convert
    \/ \E p \in ProxyGlobals : phase \in {"idle", "aggregating"} /\ set_global_proxy(p)

SpecProxy == Init /\ [][NextProxy]_vars

\* ------------------------------------------------------------ the debug mode
\* The same program on batches of one descriptor while set_debug switches the
\* debug mode and its target, and stdout may refuse a write.
DebugTargets == {NoneStr, "Console", "logs", "/no/such/dir/debug.log"}

DebugDescriptors ==
    { RequestItem(u, F(1), tag, p) :
          u \in {"http://a.test/x", "not a url"}, tag \in {"a", NoneStr},
          p \in {NoneProxy, P_all_bad} }

NextDebug ==
    \/ \E d \in DebugDescriptors, tt \in {F(2), F(4)}, m \in Modes : fetch_requests(<<d>>, tt, m)
    \/ \E i \in 1..N : execute_with_select_all(i)
    \/ \E i \in 1..N : execute_with_join_all(i)
    \/ \E i \in 1..N, r \in Responses : NetRespond(i, r)
    \/ \E i \in 1..N : NetFail(i)
    \/ \E i \in 1..N : RequestTimeout(i)
    \/ \E i \in 1..N : ExecTimeout(i)
    \/ \E i \in 1..N : WrapperTimeout(i)
    \/ Tick
    \/ fetch_requests_convert
    \/ \E i \in 1..N : debug_log(i)
    \/ \E e \in BOOLEAN, t \in DebugTargets : set_debug(e, t)

SpecDebug == Init /\ [][NextDebug]_vars

\* ------------------------------------------------ set_global_proxy against running executors
\* Python calls set_global_proxy while a batch is running: the call is issued,
\* then its async block takes GLOBAL_PROXY's lock, writes and returns.
LockDescriptors ==
    { RequestItem("http://a.test/x",      F(1),    "a",     NoneProxy),
      RequestItem("https://api.b.test/y", NoneF64, NoneStr, NoneProxy),
      RequestItem("http://a.test/x",      F(1),    "c",     P_all_ok) }

LockBatches == UNION { [1..k -> LockDescriptors] : k \in 1..MaxN }

\* the interpreter enters set_global_proxy(proxy)
call_set_global_proxy(proxy) ==
    /\ phase \in {"idle", "aggregating"}
    /\ call = NoCall \/ ret.set
    /\ call' = [fn |-> "set_global_proxy", proxy |-> proxy]
    /\ ret' = NoRet
    /\ UNCHANGED <<GLOBAL_PROXY, DEBUG_CONFIG, debug_out, build, phase, mode, requests,
                   total_duration, now, next, task, slots, results, output>>

\* runtime.block_on drives the async block of the pending call to its end
set_global_proxy_pending ==
    /\ call.fn = "set_global_proxy"
    /\ ~ret.set
    /\ set_global_proxy(call.proxy)

NextLock ==
    \/ \E reqs \in LockBatches, m \in Modes : fetch_requests(reqs, F(MinTimeout), m)
    \/ \E i \in 1..N : execute_with_select_all(i)
    \/ \E i \in 1..N : execute_with_join_all(i)
    \/ \E i \in 1..N : NetRespond(i, [status |-> 200, headers |-> [server |-> "srv"],
                                     body |-> [ok |-> TRUE, text |-> "body"]])
    \/ \E i \in 1..N : NetFail(i)
    \/ \E i \in 1..N : RequestTimeout(i)
    \/ \E i \in 1..N : ExecTimeout(i)
    \/ \E i \in 1..N : WrapperTimeout(i)
    \/ Tick
    \/ fetch_requests_convert
    \/ \E p \in {P_all_ok, P_http_only} : call_set_global_proxy(p)
    \/ set_global_proxy_pending

\* tokio's Mutex hands the lock to a waiter as soon as it is free, and block_on
\* polls the call until it is done; nothing is assumed of the network or of time
SpecLock == Init /\ [][NextLock]_vars /\ WF_vars(set_global_proxy_pending)

\* ------------------------------------------------ helper functions alone
\* should_use_proxy applied to a URL and a no_proxy list
Patterns == {"*", "b.test", "a.", "zzz"}

NoProxyLists ==
    {NoneList} \cup
    { SomeList(l) : l \in UNION { [1..k -> Patterns] : k \in 0..MaxPatterns } }

HelperUrls == Urls \cup {"data:text/plain,hi"}

HelperCalls ==
    { [fn |-> "should_use_proxy", url |-> u, no_proxy |-> np] :
          u \in HelperUrls, np \in NoProxyLists }

\* create_client_with_proxy applied to a target URL and a ProxyConfig; the
\* ProxyConfig of lib.rs has no username and no password
ProxyEntries == {NoneStr, "http://proxy.test:8080", "::not a proxy::"}
Credentials(b) ==
    IF b = "lib" THEN {<<NoneStr, NoneStr>>}
    ELSE {<<NoneStr, NoneStr>>, <<"u", "p">>, <<"u", NoneStr>>, <<NoneStr, "p">>}

ClientCalls(b) ==
    { [fn |-> "create_client_with_proxy", url |-> u,
       proxy_config |-> ProxyConfig(h, hs, a, np, c[1], c[2])] :
          u \in HelperUrls, a \in ProxyEntries,
          h \in {NoneStr, "http://px2.test:3128", "::not a proxy::"},
          hs \in {NoneStr, "http://px3.test:8443"},
          np \in {NoneList, SomeList(<<"b.test">>), SomeList(<<"*">>)},
          c \in Credentials(b) }

\* the params of a request applied to a method and a dict
Strings == UNION { [1..k -> {"x", DQ, BS}] : k \in 0..MaxStr }
PyValues ==
    { PyVal("int", 1, <<>>, FALSE), PyVal("bool", 0, <<>>, TRUE),
      PyVal("NoneType", 0, <<>>, FALSE) }
        \cup { PyVal("str", 0, str, FALSE) : str \in Strings }
PyDicts ==
    {NoneDict, SomeDict(<<>>)}
        \cup { SomeDict(<<<<k, v>>>>) : k \in {"a", "b"}, v \in PyValues }
        \cup { SomeDict(<<<<k, v>>, <<IF k = "a" THEN "b" ELSE "a",
                                       PyVal("int", 1, <<>>, FALSE)>>>>) :
                   k \in {"a", "b"}, v \in PyValues }
Methods == {NoneStr, "get", "delete", "post", "PUT", "bad method"}

ParamsCalls ==
    { [fn |-> "RequestParams", method |-> m, params |-> d, preserve_order |-> po] :
          m \in Methods, d \in PyDicts, po \in BOOLEAN }

\* fetch_single applied to what execute_single_request(req, None) returned
SingleDescriptors ==
    { RequestItem("http://a.test/x", F(1), "a", NoneProxy),
      RequestItem("https://api.b.test/y", NoneF64, NoneStr, P_all_bad) }

SingleCalls ==
    { [fn |-> "fetch_single", result |-> res] :
          res \in UNION { { ResponseRecord(d, r.status, r.headers, res_text(r)) :
                               r \in Responses }
                             \cup { HttpErrorRecord(d, "error sending request"),
                                    TimeoutRecord(d, effective_timeout(d).secs),
                                    ProxyErrorRecord(d, "builder error") } :
                           d \in SingleDescriptors } }

\* HttpVersion: from_str applied to a text, and the methods applied to a mode
VersionTexts ==
    { <<"A", "U", "T", "O">>,
      <<"a", "u", "t", "o">>,
      <<"A", "u", "t", "o">>,
      <<>>,
      <<"H", "T", "T", "P", "1">>,
      <<"h", "t", "t", "p", "1">>,
      <<"H", "T", "T", "P", "1", ".", "1">>,
      <<"h", "t", "t", "p", "1", ".", "1">>,
      <<"H", "T", "T", "P", "1", "_", "O", "N", "L", "Y">>,
      <<"H", "t", "t", "p", "1", "_", "O", "n", "l", "y">>,
      <<"H", "T", "T", "P", "2">>,
      <<"h", "t", "t", "p", "2">>,
      <<"H", "T", "T", "P", "2", "_", "P", "R", "I", "O", "R", "_", "K", "N", "O", "W", "L", "E", "D", "G", "E">>,
      <<"h", "t", "t", "p", "2", "_", "p", "r", "i", "o", "r", "_", "k", "n", "o", "w", "l", "e", "d", "g", "e">>,
      <<"F", "O", "R", "C", "E", "_", "H", "T", "T", "P", "2">>,
      <<"f", "o", "r", "c", "e", "_", "h", "t", "t", "p", "2">>,
      <<"H", "T", "T", "P", "2", "_", "O", "N", "L", "Y">>,
      <<"H", "t", "t", "p", "2", "_", "o", "n", "l", "y">>,
      <<"H", "T", "T", "P", "3">>,
      <<"h", "t", "t", "p", "/", "2">>,
      <<" ", "a", "u", "t", "o">>,
      <<"H", "T", "T", "P", "1", "_", "1">>,
      <<"2">>,
      <<"H", "T", "T", "P", "2", "_", "P", "R", "I", "O", "R">> }

VersionCalls ==
    { [fn |-> "from_str", s |-> s] : s \in VersionTexts }
        \cup { [fn |-> "HttpVersion", v |-> v] : v \in HttpVersions }

InitHelper ==
    /\ build \in Builds
    /\ phase = "idle"
    /\ mode = "SELECT_ALL"
    /\ requests = <<>>
    /\ total_duration = 0
    /\ now = 0
    /\ next = 1
    /\ task = <<>>
    /\ slots = <<>>
    /\ results = <<>>
    /\ output = <<>>
    /\ GLOBAL_PROXY = NoneProxy
    /\ call \in (IF build = "lib" THEN HelperCalls ELSE {}) \cup ClientCalls(build)
                    \cup ParamsCalls \cup SingleCalls \cup VersionCalls
    /\ ret = NoRet
    /\ DEBUG_CONFIG = DebugConfig(FALSE, Console)
    /\ debug_out = <<>>

call_should_use_proxy ==
    /\ call.fn = "should_use_proxy"
    /\ ~ret.set
    /\ ret' = [set |-> TRUE, val |-> should_use_proxy(call.url, call.no_proxy)]
    /\ UNCHANGED <<DEBUG_CONFIG, debug_out, call, build, phase, mode, requests, total_duration, now, next, task,
                   slots, results, output, GLOBAL_PROXY>>

call_create_client_with_proxy ==
    /\ call.fn = "create_client_with_proxy"
    /\ ~ret.set
    /\ ret' = [set |-> TRUE,
               val |-> create_client_with_proxy(build, call.url, call.proxy_config)]
    /\ UNCHANGED <<DEBUG_CONFIG, debug_out, call, build, phase, mode, requests, total_duration, now, next, task,
                   slots, results, output, GLOBAL_PROXY>>

call_RequestParams ==
    /\ call.fn = "RequestParams"
    /\ ~ret.set
    /\ ret' = [set |-> TRUE,
               val |-> RequestParams(call.method, call.params, call.preserve_order)]
    /\ UNCHANGED <<DEBUG_CONFIG, debug_out, call, build, phase, mode, requests, total_duration,
                   now, next, task, slots, results, output, GLOBAL_PROXY>>

\* Python::with_gil of fetch_single, after the executor has returned
call_fetch_single ==
    /\ call.fn = "fetch_single"
    /\ ~ret.set
    /\ ret' = [set |-> TRUE, val |-> fetch_single_convert(build, call.result)]
    /\ UNCHANGED <<DEBUG_CONFIG, debug_out, call, build, phase, mode, requests, total_duration,
                   now, next, task, slots, results, output, GLOBAL_PROXY>>

call_from_str ==
    /\ call.fn = "from_str"
    /\ ~ret.set
    /\ ret' = [set |-> TRUE, val |-> from_str(call.s)]
    /\ UNCHANGED <<DEBUG_CONFIG, debug_out, call, build, phase, mode, requests, total_duration,
                   now, next, task, slots, results, output, GLOBAL_PROXY>>

\* __str__, supports_http2, is_http2_forced and apply_to_builder of one mode
call_HttpVersion ==
    /\ call.fn = "HttpVersion"
    /\ ~ret.set
    /\ ret' = [set |-> TRUE,
               val |-> [str |-> HttpVersion_str(call.v),
                        supports_http2 |-> supports_http2(call.v),
                        is_http2_forced |-> is_http2_forced(call.v),
                        builder |-> apply_to_builder(call.v, ClientBuilder)]]
    /\ UNCHANGED <<DEBUG_CONFIG, debug_out, call, build, phase, mode, requests, total_duration,
                   now, next, task, slots, results, output, GLOBAL_PROXY>>

NextHelper ==
    \/ call_should_use_proxy
    \/ call_create_client_with_proxy
    \/ call_RequestParams
    \/ call_fetch_single
    \/ call_from_str
    \/ call_HttpVersion

SpecHelper == InitHelper /\ [][NextHelper]_vars

\* ===================================================================== claims
\* what is seen of a record
HttpStatus(r) == IF "http_status" \in DOMAIN r THEN parse_u16(r["http_status"]).val ELSE -1
ExceptionObj(r) == IF "exception" \in DOMAIN r THEN json_loads(r["exception"]).obj ELSE EmptyObj
ExceptionType(r) == IF "type" \in DOMAIN ExceptionObj(r) THEN ExceptionObj(r)["type"] ELSE ""

\* the aggregator has returned its Vec to fetch_requests
AggregatorReturned == phase = "collected"
\* the executor of descriptor i returned a record to its wrapper
Completed(i) == task[i].st = "done"
\* the wrapper of descriptor i hit total_duration first and dropped the executor
TimedOut(i) == task[i].st = "dropped"
\* seconds since fetch_requests was called (the clock starts with the batch)
Elapsed == now

\* C1: when an aggregator returns, in either mode, its list has exactly one
\* record per descriptor and record i is the outcome of descriptor i: the record
\* executor i returned, or the record synthesized when wrapper i timed out.
C1_OneRecordPerDescriptorInOrder ==
    AggregatorReturned =>
        /\ Len(results) = N
        /\ \A i \in 1..N :
              /\ Completed(i) \/ TimedOut(i)
              /\ Completed(i) => results[i] = task[i].result
              /\ TimedOut(i) => results[i] = GlobalTimeoutRecord(build)

C1_Witness ==
    /\ AggregatorReturned
    /\ mode = "JOIN_ALL"
    /\ N = 2
    /\ Completed(1) /\ HttpStatus(results[1]) = 404
    /\ Completed(2) /\ HttpStatus(results[2]) = 200

\* C2: in STREAMING mode every descriptor whose executor had not completed when
\* total_duration elapsed has a record with http_status 0 and an exception
\* object of type GlobalTimeout carrying type and message.
C2_StreamingGlobalTimeoutRecord ==
    (AggregatorReturned /\ mode = "SELECT_ALL") =>
        \A i \in 1..N : TimedOut(i) =>
            /\ HttpStatus(results[i]) = 0
            /\ ExceptionType(results[i]) = "GlobalTimeout"
            /\ DOMAIN ExceptionObj(results[i]) = {"type", "message"}

\* C3: in STREAMING mode a descriptor whose executor completed in time keeps
\* exactly the record its executor returned, whatever its siblings do, and only
\* descriptors whose executor did not complete carry the aggregate-timeout record.
C3_StreamingPartialSuccess ==
    (AggregatorReturned /\ mode = "SELECT_ALL") =>
        \A i \in 1..N :
            /\ Completed(i) => results[i] = task[i].result
            /\ (ExceptionType(results[i]) = "GlobalTimeout"
                   \/ "exception" \notin DOMAIN results[i]) => TimedOut(i)

C3_Witness ==
    /\ AggregatorReturned
    /\ mode = "SELECT_ALL"
    /\ \E i, j \in 1..N :
          /\ Completed(i) /\ HttpStatus(results[i]) = 200
          /\ TimedOut(j)

\* C4: in ALL-OR-NOTHING mode, once the aggregate deadline has fired for some
\* descriptor, every record of the returned list is the synthesized
\* aggregate-timeout record, also for executors that had completed.
C4_JoinAllOverridesAll ==
    (AggregatorReturned /\ mode = "JOIN_ALL" /\ \E j \in 1..N : TimedOut(j)) =>
        \A i \in 1..N : results[i] = GlobalTimeoutRecord(build)

\* C5: in ALL-OR-NOTHING mode the executors are launched together: the executor
\* of descriptor i+1 is started at the instant executor i is started, not after
\* executor i has run for a while or completed.
C5_JoinAllLaunchesTogether ==
    (phase = "aggregating" /\ mode = "JOIN_ALL") =>
        \A i \in 1..(N - 1) :
            (Inflight(i) /\ task[i + 1].st = "new") => now = task[i].started

\* C6: in ALL-OR-NOTHING mode the batch returns no later than total_duration
\* after it started, whatever the batch size.
C6_JoinAllOneDeadline ==
    (AggregatorReturned /\ mode = "JOIN_ALL") => Elapsed <= total_duration

\* C7: in STREAMING mode the batch never runs past total_duration and returns
\* with every slot filled.
C7_StreamingOneDeadline ==
    mode = "SELECT_ALL" =>
        /\ phase = "aggregating" => Elapsed <= total_duration
        /\ AggregatorReturned =>
              /\ Elapsed <= total_duration
              /\ Len(results) = N
              /\ \A i \in 1..N : results[i] # NotReady

C7_Witness ==
    /\ AggregatorReturned
    /\ mode = "SELECT_ALL"
    /\ N = 2
    /\ Elapsed = total_duration
    /\ TimedOut(1)
    /\ Completed(2) /\ ExceptionType(results[2]) = "Timeout"

\* C8: in ALL-OR-NOTHING mode a record differs from what its executor returned
\* only if the wrapper of that descriptor ran into total_duration; when every
\* executor completed, the list is the executors' records verbatim, failures
\* included.
C8_JoinAllVerbatim ==
    (AggregatorReturned /\ mode = "JOIN_ALL") =>
        /\ (\A i \in 1..N : Completed(i)) => \A i \in 1..N : results[i] = task[i].result
        /\ \A i \in 1..N : ExceptionType(results[i]) = "GlobalTimeout" => TimedOut(i)
        /\ \A i \in 1..N : Completed(i) => results[i] = task[i].result

C8_Witness ==
    /\ AggregatorReturned
    /\ mode = "JOIN_ALL"
    /\ N = 2
    /\ Completed(1) /\ ExceptionType(results[1]) \in {"HttpError", "HttpStatusError", "Timeout", "ProxyError"}
    /\ Completed(2) /\ HttpStatus(results[2]) = 200 /\ ExceptionType(results[2]) = ""

\* C9: execute_single_request never panics: no executor ends by unwinding.
C9_ExecutorNeverPanics ==
    \A i \in 1..Len(task) : task[i].st # "panicked"

\* C10: the conversion of the aggregator's records to the Python list completes
\* for every list an aggregator returns.
C10_ConversionCompletes ==
    AggregatorReturned => \A i \in 1..Len(results) : ToPyDict(results[i]).out = "ok"

\* ---------------------------------------------------------------- C11..C20
\* the response and meta of a record as Python's json.loads sees them
ResponseOf(r) ==
    IF "response" \in DOMAIN r THEN json_loads(r["response"])
    ELSE [ok |-> FALSE, obj |-> EmptyObj]
MetaOf(r) ==
    IF "meta" \in DOMAIN r THEN json_loads(r["meta"])
    ELSE [ok |-> FALSE, obj |-> EmptyObj]

\* the record the executor of descriptor i returned
Returned(i) == task[i].result

\* C11: every record an aggregator returns has the same shape: the four fields
\* http_status, response, exception and meta; response is an object with
\* headers and content; meta holds request_time, process_time and tag.
C11_UniformRecordShape ==
    AggregatorReturned =>
        \A i \in 1..Len(results) :
            /\ DOMAIN results[i] = {"http_status", "response", "exception", "meta"}
            /\ ResponseOf(results[i]).ok
            /\ DOMAIN ResponseOf(results[i]).obj = {"headers", "content"}
            /\ MetaOf(results[i]).ok
            /\ DOMAIN MetaOf(results[i]).obj = {"request_time", "process_time", "tag"}

\* C12: when a response with a status outside the success range is received,
\* the record carries that status, the received headers and body, and the
\* exception {type: "HttpStatusError", message: "HTTP status error: <code>"};
\* when the status is in the success range the exception is empty.
C12_StatusErrorRecord ==
    [][\A i \in 1..N, r \in ExecResponses :
          NetRespond(i, r) =>
              /\ HttpStatus(Returned(i)') = r.status
              /\ HttpStatus(Returned(i)') # 0
              /\ ResponseOf(Returned(i)').ok
              /\ DOMAIN ResponseOf(Returned(i)').obj = {"headers", "content"}
              /\ ResponseOf(Returned(i)').obj["headers"] = r.headers
              /\ r.body.ok => ResponseOf(Returned(i)').obj["content"] = r.body.text
              /\ ExceptionType(Returned(i)') # "HttpError"
              /\ IF r.status \in 200..299
                 THEN ExceptionObj(Returned(i)') = EmptyObj
                 ELSE ExceptionObj(Returned(i)') =
                          [type |-> "HttpStatusError",
                           message |-> <<"HTTP status error: ">> \o Decimal(r.status)]]_vars

C12_Witness ==
    \E i \in 1..Len(task) :
        /\ Completed(i)
        /\ HttpStatus(Returned(i)) = 404
        /\ ExceptionType(Returned(i)) = "HttpStatusError"
        /\ ResponseOf(Returned(i)).obj = [headers |-> [server |-> "srv"], content |-> "not found"]

\* a record's response holds no headers and no content
CarriesNothing(r) ==
    \/ r["response"] = EmptyString
    \/ ResponseOf(r).obj = [headers |-> EmptyObj, content |-> ""]

\* C13: in every record execute_single_request returns, http_status is 0
\* exactly when exception.type is ProxyError, HttpError or Timeout, and then the
\* response holds no headers and no content; exception.type is ProxyError,
\* HttpError, HttpStatusError or Timeout, or the exception is the empty object;
\* the executor never returns GlobalTimeout.
C13_StatusZeroIffNoResponse ==
    \A i \in 1..Len(task) :
        Completed(i) =>
            /\ DOMAIN Returned(i) = {"http_status", "response", "exception", "meta"}
            /\ parse_u16(Returned(i)["http_status"]).ok
            /\ HttpStatus(Returned(i)) = 0
                  <=> ExceptionType(Returned(i)) \in {"ProxyError", "HttpError", "Timeout"}
            /\ HttpStatus(Returned(i)) = 0 => CarriesNothing(Returned(i))
            /\ \/ ExceptionObj(Returned(i)) = EmptyObj
               \/ /\ DOMAIN ExceptionObj(Returned(i)) = {"type", "message"}
                  /\ ExceptionType(Returned(i)) \in
                        {"ProxyError", "HttpError", "HttpStatusError", "Timeout"}
            /\ ExceptionType(Returned(i)) # "GlobalTimeout"

C13_Witness ==
    \E i \in 1..Len(task) :
        /\ Completed(i)
        /\ HttpStatus(Returned(i)) = 0
        /\ ExceptionType(Returned(i)) = "Timeout"
        /\ now = MinTimeout

\* max(descriptor.timeout or 30.0, 3.0), in whole seconds, for a descriptor
\* whose timeout is absent, NaN or finite
ClaimedTimeout(req) ==
    IF req.timeout.cls = "none" THEN DefaultTimeout
    ELSE IF req.timeout.cls = "nan" \/ req.timeout.v < MinTimeout THEN MinTimeout
    ELSE req.timeout.v

\* C14: the effective timeout of a request is max(descriptor.timeout or 30.0,
\* 3.0) seconds: it is the request's own timeout and the deadline of the
\* timeout wrapper around send, and no Timeout record is returned before that
\* many seconds (3 at least) have passed since the request started.
C14_EffectiveTimeout ==
    [][\A i \in 1..N :
          /\ Inflight(i)' =>
                /\ task'[i].timeout = ClaimedTimeout(requests'[i])
                /\ task'[i].request_timeout = task'[i].timeout
          /\ (Inflight(i) /\ Completed(i)' /\ ExceptionType(Returned(i)') = "Timeout") =>
                /\ now - task[i].started >= MinTimeout
                /\ now - task[i].started >= ClaimedTimeout(requests[i])
                /\ ExceptionObj(Returned(i)')["message"] =
                      <<"Request timeout after ">> \o Decimal(ClaimedTimeout(requests[i]))
                          \o <<".00 seconds">>]_vars

C14_Witness ==
    \E i \in 1..Len(task) :
        /\ requests[i].timeout = F(1)
        /\ Completed(i)
        /\ ExceptionType(Returned(i)) = "Timeout"
        /\ now = MinTimeout

\* the record the aggregator holds for descriptor i once its wrapper is done
Outcome(i) == IF mode = "SELECT_ALL" THEN slots[i] ELSE results[i]

\* C15: the request's own timeout lies inside the aggregate one.  When a
\* descriptor is ended by a deadline (no response, no transport failure): if
\* its effective timeout is strictly shorter than total_duration its record is
\* the executor's Timeout record; if total_duration is strictly shorter, its
\* record is GlobalTimeout; and a descriptor whose aggregate deadline fired is
\* never given a Timeout record.
C15_LayeredDeadlines ==
    [][\A i \in 1..N :
          (RequestTimeout(i) \/ ExecTimeout(i) \/ WrapperTimeout(i)) =>
              /\ task[i].timeout < total_duration =>
                    /\ Completed(i)'
                    /\ ExceptionType(Outcome(i)') = "Timeout"
              /\ total_duration < task[i].timeout =>
                    /\ TimedOut(i)'
                    /\ ExceptionType(Outcome(i)') = "GlobalTimeout"
              /\ TimedOut(i)' => ExceptionType(Outcome(i)') # "Timeout"]_vars

\* the aggregator polls the wrapper of descriptor i for the first time
Launched(i) == execute_with_select_all(i) \/ execute_with_join_all(i)

\* C16: a descriptor's own proxy overrides the process-wide one.  When
\* descriptor.proxy is present, the client (or the ProxyError record) is the one
\* resolved from descriptor.proxy alone, whatever GLOBAL_PROXY holds at that
\* moment; GLOBAL_PROXY is used only when descriptor.proxy is absent.
C16_RequestProxyOverridesGlobal ==
    [][\A i \in 1..N :
          Launched(i) =>
              IF requests[i].proxy.is_some
              THEN LET own == create_client_with_proxy(build, requests[i].url, requests[i].proxy)
                   IN  IF own.ok
                       THEN /\ Inflight(i)'
                            /\ task'[i].proxy_config = requests[i].proxy
                            /\ task'[i].client = own.client
                       ELSE /\ Completed(i)'
                            /\ Returned(i)' = ProxyErrorRecord(requests[i], own.err)
              ELSE IF GLOBAL_PROXY.is_some
              THEN Inflight(i)' =>
                      /\ task'[i].proxy_config = GLOBAL_PROXY
                      /\ task'[i].client =
                            create_client_with_proxy(build, requests[i].url, GLOBAL_PROXY).client
              ELSE /\ Inflight(i)'
                   /\ task'[i].proxy_config = NoneProxy
                   /\ task'[i].client = GLOBAL_CLIENT]_vars

C16_Witness ==
    \E i \in 1..Len(task) :
        /\ Inflight(i)
        /\ requests[i].proxy = P_http_only
        /\ GLOBAL_PROXY = P_all_ok
        /\ task[i].proxy_config = P_http_only
        /\ task[i].client.proxy.url = "http://px2.test:3128"

\* the proxy configuration in effect for descriptor i at this moment
EffectiveProxy(i) ==
    IF requests[i].proxy.is_some THEN requests[i].proxy ELSE GLOBAL_PROXY

\* a proxy URL that is none, or a target URL the scheme-specific choice cannot parse
ResolutionFails(url, pc) ==
    /\ pc.is_some
    /\ \/ pc.all # NoneStr /\ pc.no_proxy = NoneList /\ ~UrlParse(pc.all).ok
       \/ pc.all = NoneStr /\ ~UrlParse(url).ok

\* C17: when proxy resolution or the construction of the proxy client fails,
\* the executor returns at once a record with http_status 0 and exception.type
\* ProxyError, and no send is attempted for that descriptor: a ProxyError record
\* comes only from a descriptor that was never in flight, and no descriptor
\* whose resolution fails is ever in flight.
C17_ProxyErrorShortCircuits ==
    [][\A i \in 1..N :
          /\ (Launched(i) /\ ResolutionFails(requests[i].url, EffectiveProxy(i))) =>
                /\ Completed(i)'
                /\ HttpStatus(Returned(i)') = 0
                /\ ExceptionType(Returned(i)') = "ProxyError"
          /\ (~Completed(i) /\ Completed(i)' /\ ExceptionType(Returned(i)') = "ProxyError") =>
                task[i].st = "new"
          /\ Inflight(i)' => ~ResolutionFails(requests'[i].url, task'[i].proxy_config)]_vars

C17_Witness ==
    \E i \in 1..Len(task) :
        /\ requests[i].proxy = P_all_bad
        /\ Completed(i)
        /\ HttpStatus(Returned(i)) = 0
        /\ ExceptionType(Returned(i)) = "ProxyError"
        /\ \E j \in 1..Len(task) : Inflight(j)

\* descriptor i has an unparseable URL and a proxy configuration is in effect
UnparseableAtResolver(i) ==
    /\ ~UrlParse(requests[i].url).ok
    /\ EffectiveProxy(i).is_some

ClaimedShouldUseProxy(url, no_proxy) ==
    IF ~no_proxy.is_some THEN TRUE
    ELSE IF \E k \in 1..Len(no_proxy.list) : no_proxy.list[k] = "*" THEN FALSE
    ELSE IF ~UrlParse(url).ok THEN TRUE
    ELSE IF \E k \in 1..Len(no_proxy.list) :
               HostContains(UrlParse(url).host, no_proxy.list[k]) THEN FALSE
    ELSE TRUE

\* C19: should_use_proxy(url, no_proxy) returns false when the URL's host
\* contains a pattern of the list, false for any URL, parseable or not, when a
\* pattern is exactly "*", true when no_proxy is None, and true when the URL
\* cannot be parsed and no pattern is "*".
C19_ShouldUseProxy ==
    (call.fn = "should_use_proxy" /\ ret.set) =>
        ret.val = ClaimedShouldUseProxy(call.url, call.no_proxy)

\* the host of url matches a pattern of the no_proxy list, or the list holds "*"
Bypassed(url, no_proxy) ==
    /\ no_proxy.is_some
    /\ \E k \in 1..Len(no_proxy.list) :
          \/ no_proxy.list[k] = "*"
          \/ UrlParse(url).ok /\ HostContains(UrlParse(url).host, no_proxy.list[k])

\* C20: a request whose host matches a no_proxy pattern, or whose no_proxy list
\* holds "*", is sent through a client with no proxy, even when the proxy
\* configuration in effect sets all, http or https.
C20_NoProxyBypassesProxy ==
    \A i \in 1..Len(task) :
        (/\ Inflight(i)
         /\ task[i].proxy_config.is_some
         /\ Bypassed(requests[i].url, task[i].proxy_config.no_proxy)) =>
            task[i].client.proxy = NoProxyUrl

\* a proxy applies: request/executor.rs has no no_proxy test, lib.rs asks
\* should_use_proxy
ProxyApplies(b, url, pc) == b = "modules" \/ should_use_proxy(url, pc.no_proxy)

\* the entry create_client_with_proxy is said to choose, and its scope
ClaimedChoice(url, pc) ==
    IF pc.all # NoneStr THEN [url |-> pc.all, scope |-> "all"]
    ELSE IF UrlParse(url).scheme = "http" /\ pc.http # NoneStr
    THEN [url |-> pc.http, scope |-> "http"]
    ELSE IF UrlParse(url).scheme = "https" /\ pc.https # NoneStr
    THEN [url |-> pc.https, scope |-> "https"]
    ELSE [url |-> NoneStr, scope |-> "none"]

\* C21: when a proxy applies and create_client_with_proxy returns a client, the
\* client's proxy is the all entry whenever all is set, whatever http, https
\* and the target scheme are; otherwise the http entry for an http target and
\* the https entry for an https target; otherwise none.  The call fails only
\* when the chosen entry is no proxy URL or, all being unset, the target URL
\* does not parse.
C21_ProxyChoice ==
    (/\ call.fn = "create_client_with_proxy"
     /\ ret.set
     /\ ProxyApplies(build, call.url, call.proxy_config)) =>
        LET want == ClaimedChoice(call.url, call.proxy_config)
        IN  IF ret.val.ok
            THEN /\ ret.val.client.proxy.url = want.url
                 /\ ret.val.client.scope = want.scope
            ELSE \/ want.url # NoneStr /\ ~ProxyUrlOk(want.url)
                 \/ call.proxy_config.all = NoneStr /\ ~UrlParse(call.url).ok

C21_Witness ==
    /\ call.fn = "create_client_with_proxy"
    /\ ret.set
    /\ call.url = "https://api.b.test/y"
    /\ call.proxy_config.all = "http://proxy.test:8080"
    /\ call.proxy_config.https = "http://px3.test:8443"
    /\ ret.val.ok
    /\ ret.val.client.proxy.url = "http://proxy.test:8080"
    /\ ret.val.client.scope = "all"

\* C22: the proxy URL the client is built with embeds username and password
\* when both are set in the ProxyConfig, and is the entry unchanged when only
\* one of them, or neither, is set; for whichever entry (all, http, https) is
\* chosen.
C22_CredentialsEmbedded ==
    (/\ call.fn = "create_client_with_proxy"
     /\ ret.set
     /\ ret.val.ok
     /\ ret.val.client.proxy.url # NoneStr) =>
        LET pc == call.proxy_config
            px == ret.val.client.proxy
        IN  IF pc.username # NoneStr /\ pc.password # NoneStr
            THEN px.username = pc.username /\ px.password = pc.password
            ELSE px.username = NoneStr /\ px.password = NoneStr

\* C23: a fresh client is built only when a proxy is in effect for the request.
\* A request in flight whose client has no proxy (no configuration at all, host
\* bypassed by no_proxy, no entry for the target scheme) uses the shared client
\* fetch_requests handed to the executor, and a fresh client has a proxy.
C23_FreshClientOnlyWithProxy ==
    \A i \in 1..Len(task) :
        Inflight(i) =>
            /\ task[i].client.proxy = NoProxyUrl => task[i].client = GLOBAL_CLIENT
            /\ task[i].client.origin = "fresh" => task[i].client.proxy # NoProxyUrl

\* C24: set_global_proxy swaps the whole value.  Whatever the interleaving of
\* set_global_proxy calls with running executors, the stored value is one of
\* the values written (or the initial None), and every executor in flight that
\* read the global proxy holds one of them whole, never fields of two of them.
C24_GlobalProxySwapIsAtomic ==
    /\ GLOBAL_PROXY \in ProxyGlobals
    /\ \A i \in 1..Len(task) :
          (Inflight(i) /\ ~requests[i].proxy.is_some) =>
              task[i].proxy_config \in ProxyGlobals

C24_Witness ==
    \E i \in 1..Len(task) :
        /\ Inflight(i)
        /\ ~requests[i].proxy.is_some
        /\ task[i].proxy_config = P_http_only
        /\ GLOBAL_PROXY = P_all_ok

\* C25: the global proxy can be set and reset.  After set_global_proxy(p) the
\* stored value is p, after set_global_proxy(None) it is None, and an executor
\* first polled after set_global_proxy(None), for a descriptor with no proxy of
\* its own, sends through the shared client with no proxy.
C25_GlobalProxySetAndReset ==
    [][/\ call'.fn = "set_global_proxy" => GLOBAL_PROXY' = call'.proxy
       /\ \A i \in 1..N :
             (/\ Launched(i)
              /\ call.fn = "set_global_proxy"
              /\ ~call.proxy.is_some
              /\ ~requests[i].proxy.is_some) =>
                 /\ Inflight(i)'
                 /\ task'[i].client = GLOBAL_CLIENT]_vars

\* C26: every execution that completes a network attempt (a response of any
\* status, a transport error, a per-request timeout) has passed exactly one
\* entry to debug_log, and one that returns the ProxyError record has passed
\* none.
C26_OneDebugEntryPerAttempt ==
    \A i \in 1..Len(task) :
        Completed(i) =>
            task[i].logged = IF ExceptionType(Returned(i)) = "ProxyError" THEN 0 ELSE 1

\* C27: the debug sink is purely observational.  A response gives the executor's
\* record of that response whatever DEBUG_CONFIG holds (enabled or not, console
\* or file) and whether or not the write succeeds, and with the debug mode
\* disabled nothing is written.
C27_DebugIsObservational ==
    [][/\ \A i \in 1..N, r \in Responses :
             NetRespond(i, r) =>
                 /\ Completed(i)' \/ task'[i].st = "logging"
                 /\ Returned(i)' = ResponseRecord(requests[i], r.status, r.headers, res_text(r))
       /\ \A i \in 1..N :
             (task[i].st = "logging" /\ task'[i].st # "logging") =>
                 /\ Completed(i)'
                 /\ Returned(i)' = Returned(i)
       /\ ~DEBUG_CONFIG.enabled => debug_out' = debug_out]_vars

\* the string a query pair is said to carry for a value of the dict: a str as
\* it is, anything else as its text
ClaimedCoerce(v) ==
    IF v.py = "str" THEN v.s
    ELSE IF v.py = "int" THEN Decimal(v.n)
    ELSE IF v.py = "bool"
    THEN (IF v.b THEN <<"t", "r", "u", "e">> ELSE <<"f", "a", "l", "s", "e">>)
    ELSE <<"N", "o", "n", "e">>

\* C28: params are routed by method.  For GET and DELETE the dict becomes the
\* query pairs, one per key, in the dict's insertion order, a string value
\* being sent as the original string, and there is no body; for every other
\* method the dict becomes the JSON body (every key with its value) and no
\* query pair is added.
C28_ParamsRouting ==
    (call.fn = "RequestParams" /\ ret.set /\ call.params.is_some) =>
        LET items == call.params.items
        IN  IF ParseMethod(call.method) \in {"GET", "DELETE"}
            THEN /\ ret.val.query =
                       [i \in 1..Len(items) |-> <<items[i][1], ClaimedCoerce(items[i][2])>>]
                 /\ ~ret.val.body.set
            ELSE /\ ret.val.query = <<>>
                 /\ ret.val.body.set
                 /\ {ret.val.body.json[i] : i \in 1..Len(ret.val.body.json)} =
                       {<<items[i][1], py_to_json(items[i][2])>> : i \in 1..Len(items)}

\* C29: no retries.  For every descriptor of a batch, in both modes, at most
\* one send is attempted, whatever its outcome: a transport error, a
\* per-request timeout, a status outside 2xx or the aggregate timeout; a
\* descriptor that was never in flight attempted none.
C29_NoRetries ==
    \A i \in 1..Len(task) :
        /\ task[i].sends <= 1
        /\ Inflight(i) => task[i].sends = 1
        /\ (Completed(i) /\ ExceptionType(Returned(i)) = "ProxyError") => task[i].sends = 0

C29_Witness ==
    /\ AggregatorReturned
    /\ N = 2
    /\ Completed(1) /\ ExceptionType(results[1]) = "Timeout" /\ task[1].sends = 1
    /\ TimedOut(2) /\ task[2].sends = 1

\* C30: the descriptor's tag is in every record produced for it.  In the list
\* an aggregator returns, meta.tag of record i is the tag of descriptor i when
\* it has one and "no-tag" when it has none, for success and failure records,
\* ProxyError records and the records of the aggregate timeout alike.
C30_TagInEveryRecord ==
    AggregatorReturned =>
        \A i \in 1..N :
            /\ MetaOf(results[i]).ok
            /\ "tag" \in DOMAIN MetaOf(results[i]).obj
            /\ MetaOf(results[i]).obj["tag"] =
                  (IF requests[i].tag = NoneStr THEN "no-tag" ELSE requests[i].tag)

\* the aggregator holds the record of descriptor i
Known(i) == IF mode = "SELECT_ALL" THEN slots[i] # NotReady ELSE i <= Len(results)

\* the records descriptor req can get, whatever the other descriptors do
OwnRecords(b, req) ==
    { ResponseRecord(req, r.status, r.headers, res_text(r)) : r \in Responses }
        \cup { HttpErrorRecord(req, e) :
                   e \in {"error sending request", "builder error",
                          "error sending request: operation timed out"} }
        \cup { ProxyErrorRecord(req, e) : e \in {"builder error", "relative URL without a base"} }
        \cup { TimeoutRecord(req, effective_timeout(req).secs), GlobalTimeoutRecord(b) }

\* C31: completion order is not observable in the list.  The record of
\* descriptor i is written into position i at the step that ends descriptor i
\* (its executor returns, or its wrapper hits the aggregate deadline), it is a
\* record of descriptor i alone, that step leaves every other position as it
\* is, a position once written never changes, and the list returned holds
\* these records in input order, in whatever order the executors ended.
C31_CompletionOrderNotObservable ==
    [][/\ \A i \in 1..N :
             /\ Known(i) => (Known(i)' /\ Outcome(i)' = Outcome(i))
             /\ (~Known(i) /\ Known(i)') =>
                   /\ Completed(i)' \/ TimedOut(i)'
                   /\ ~(Completed(i) \/ TimedOut(i))
                   /\ Outcome(i)' = IF TimedOut(i)' THEN GlobalTimeoutRecord(build)
                                    ELSE Returned(i)'
                   /\ Outcome(i)' \in OwnRecords(build, requests[i])
                   /\ \A j \in (1..N) \ {i} : Known(j)' = Known(j)
       /\ (phase = "aggregating" /\ AggregatorReturned') =>
             /\ Len(results') = N
             /\ \A i \in 1..N : results'[i] = Outcome(i)']_vars

C31_Witness ==
    /\ AggregatorReturned
    /\ mode = "SELECT_ALL"
    /\ N = 2
    /\ Completed(1) /\ ExceptionType(results[1]) = "Timeout"
    /\ Completed(2) /\ HttpStatus(results[2]) = 200
    /\ requests[1].tag # requests[2].tag

\* C32: the locks of the global proxy and of the global client are not held
\* while an executor is suspended, so a set_global_proxy call issued while
\* executors are in flight (answered or not, abandoned or not) eventually takes
\* the lock, stores its argument and returns.
C32_SetGlobalProxyCompletes ==
    (call.fn = "set_global_proxy" /\ ~ret.set)
        ~> (call.fn = "set_global_proxy" /\ ret.set /\ ret.val = "None"
                /\ GLOBAL_PROXY = call.proxy)


\* C33: executions and aggregation leave the shared state alone and each
\* execution works on a snapshot.  A step that launches, answers, times out or
\* abandons an executor, or collects the batch, leaves GLOBAL_PROXY as it was;
\* an executor sent with the proxy resolved at its launch keeps that proxy and
\* that client while it is in flight, whatever set_global_proxy stores meanwhile.
C33_SharedStateUntouchedAndSnapshot ==
    [][ /\ GLOBAL_PROXY' # GLOBAL_PROXY
            => /\ task' = task /\ phase' = phase /\ results' = results /\ slots' = slots
               /\ ret' = [set |-> TRUE, val |-> "None"]
               /\ GLOBAL_PROXY' = call'.proxy
        /\ \A i \in 1..N :
              /\ (task[i].st = "new" /\ Inflight(i)')
                    => task'[i].proxy_config = EffectiveProxy(i)
              /\ (Inflight(i) /\ Inflight(i)')
                    => /\ task'[i].proxy_config = task[i].proxy_config
                       /\ task'[i].client = task[i].client
      ]_vars

\* two executors of one batch in flight on different snapshots of the global proxy
C33_Witness ==
    /\ N = 2
    /\ ~requests[1].proxy.is_some /\ ~requests[2].proxy.is_some
    /\ Inflight(1) /\ Inflight(2)
    /\ task[1].proxy_config = NoneProxy
    /\ GLOBAL_PROXY.is_some
    /\ task[2].proxy_config = GLOBAL_PROXY
    /\ task[1].client # task[2].client


\* where an entry for a target is written
SinkOf(target) == IF target.kind = "Console" THEN "stdout" ELSE target.path

\* C34: once set_debug(false, ...) has returned no debug entry is written until
\* the debug mode is enabled again, however debug_log and set_debug interleave,
\* and an entry is written only to the target that was configured together with
\* the enabled flag debug_log observed.
C34_NoEntryAfterDisable ==
    [][ debug_out' # debug_out =>
            /\ DEBUG_CONFIG.enabled
            /\ \E i \in 1..N :
                  /\ task[i].st = "logging" /\ task'[i].st # "logging"
                  /\ debug_out'[Len(debug_out')].to = SinkOf(task[i].seen.target)
      ]_vars


\* C35: fetch_single and fetch_requests deliver the same record for the same
\* executor result: http_status as an integer, meta and exception as the trees
\* the executor serialized, so fetch_single's dict equals the dict fetch_requests
\* builds for that result.
C35_SameRecordShape ==
    (call.fn = "fetch_single" /\ ret.set) =>
        /\ ret.val = ToPyDict(call.result)
        /\ ret.val.out = "ok"
        /\ ret.val.dict.http_status.int
        /\ ret.val.dict.meta = call.result.meta.obj
        /\ ret.val.dict.exception.obj = call.result.exception.obj


\* two texts that differ at most in the case of their letters
EqIgnoreCase(s, t) ==
    /\ Len(s) = Len(t)
    /\ \A k \in 1..Len(s) :
          s[k] = t[k] \/ <<s[k], t[k]>> \in CasePairs \/ <<t[k], s[k]>> \in CasePairs

\* the texts from_str is said to accept, with their modes
AcceptedTexts ==
    { <<<<"A", "U", "T", "O">>, "Auto">>,
      <<<<>>, "Auto">>,
      <<<<"H", "T", "T", "P", "1">>, "Http1Only">>,
      <<<<"H", "T", "T", "P", "1", ".", "1">>, "Http1Only">>,
      <<<<"H", "T", "T", "P", "1", "_", "O", "N", "L", "Y">>, "Http1Only">>,
      <<<<"H", "T", "T", "P", "2">>, "Http2">>,
      <<<<"H", "T", "T", "P", "2", "_", "P", "R", "I", "O", "R", "_", "K", "N", "O", "W", "L", "E", "D", "G", "E">>, "Http2PriorKnowledge">>,
      <<<<"F", "O", "R", "C", "E", "_", "H", "T", "T", "P", "2">>, "Http2PriorKnowledge">>,
      <<<<"H", "T", "T", "P", "2", "_", "O", "N", "L", "Y">>, "Http2PriorKnowledge">> }

\* C36: the text conversion of HttpVersion round-trips and agrees with the mode
\* predicates.  from_str gives back the mode whose __str__ it is handed; it
\* accepts a text in any case, takes the empty text for AUTO and answers every
\* text outside its accepted set with an error; a forced HTTP/2 supports HTTP/2;
\* apply_to_builder restricts the builder to HTTP/1 exactly when the mode does
\* not support HTTP/2 and sets prior knowledge exactly when HTTP/2 is forced.
C36_HttpVersionRoundTrip ==
    /\ (call.fn = "HttpVersion" /\ ret.set) =>
          /\ from_str(ret.val.str) = [ok |-> TRUE, v |-> call.v]
          /\ ret.val.is_http2_forced => ret.val.supports_http2
          /\ ret.val.builder.http1_only <=> ~ret.val.supports_http2
          /\ ret.val.builder.http2_prior_knowledge <=> ret.val.is_http2_forced
    /\ (call.fn = "from_str" /\ ret.set) =>
          /\ \A t \in VersionTexts : EqIgnoreCase(call.s, t) => from_str(t) = ret.val
          /\ call.s = <<>> => ret.val = [ok |-> TRUE, v |-> "Auto"]
          /\ IF \E a \in AcceptedTexts : EqIgnoreCase(call.s, a[1])
             THEN \E a \in AcceptedTexts :
                     EqIgnoreCase(call.s, a[1]) /\ ret.val = [ok |-> TRUE, v |-> a[2]]
             ELSE ret.val = [ok |-> FALSE, v |-> "ValueError"]

\* a lower-case alias was parsed
C36_Witness ==
    /\ call.fn = "from_str"
    /\ call.s = <<"f", "o", "r", "c", "e", "_", "h", "t", "t", "p", "2">>
    /\ ret.set
    /\ ret.val = [ok |-> TRUE, v |-> "Http2PriorKnowledge"]

====
